---- MODULE Spec2Model ----
(***************************************************************************)
(* Model of the scraper's normalize -> quality gate -> dedupe -> upsert    *)
(* pipeline (src/scraper/main.py, db.py, pipeline/*.py).                   *)
(*                                                                         *)
(* Text is modelled as a sequence of one-character strings, so that        *)
(* strip(), lower(), len() and substring tests are computed as Python      *)
(* computes them.  The jobs table is a set of rows; the store executes     *)
(* one SQL statement of the source atomically, and a statement's effect    *)
(* is visible to every worker at once (the store abstraction of the        *)
(* specification: short, synchronous, transactional operations).           *)
(***************************************************************************)
EXTENDS Integers, Sequences, FiniteSets, TLC

VARIABLES
    jobs,       \* the rows of table jobs (db.py:35-66)
    nextId,     \* source of fresh ids (gen_id, db.py:106-107)
    now,        \* the clock read by datetime('now')
    storeUp,    \* FALSE while the store raises on every statement
    pc,         \* per worker: position in run_source
    idx,        \* per worker: listings of the batch already processed (i)
    count,      \* per worker: detail_count (main.py:67)
    stats,      \* per worker: the stats dict (main.py:41-49)
    job,        \* per worker: job_data of the listing being processed
    listing,    \* per worker: source_job_id of the listing being processed
    existing,   \* per worker: result of the SELECT at main.py:96-99
    found,      \* per worker: result of the SELECT at db.py:115-118
    source,     \* per worker: adapter.name of the run
    max_details, \* per worker: run_source's max_details argument
    last,       \* per worker: how the latest listing was tallied, and where
    crawl_log,  \* per worker: the crawl_log entry of the run (db.py:91-102)
    exc,        \* per worker: str(e) of the exception the run is handling
    qjob,       \* quality-gate harness: the job_data under test
    qres,       \* quality-gate harness: passes_quality's result
    ndetails,   \* normalizer harness: the JobDetails handed to normalize_job
    nresults,   \* normalizer harness: what the calls made so far returned
    fargs,      \* fingerprint harness: argument triples of the calls
    fres,       \* fingerprint harness: the digests returned so far
    dcalls,     \* store harness: the calls made so far, and the latest one
    fetch       \* fetch harness: one call of BaseAdapter.fetch

vars == <<jobs, nextId, now, storeUp, pc, idx, count, stats, job, listing, existing,
          found, source, max_details, last, crawl_log, exc, qjob, qres, ndetails, nresults,
          fargs, fres, dcalls, fetch>>

pipeVars == <<jobs, nextId, now, storeUp, pc, idx, count, stats, job, listing,
              existing, found, source, max_details, last, crawl_log, exc>>

qualVars == <<qjob, qres>>

normVars == <<ndetails, nresults>>

fpVars == <<fargs, fres>>

storeVars == <<dcalls>>

fetchVars == <<fetch>>

harnessVars == <<qualVars, normVars, fpVars, storeVars, fetchVars>>

----------------------------------------------------------------------------
(* Bounds of the model *)

ParDetails == 1   \* max_details of each of the concurrent workers
SeqDetails == 3   \* max_details of the single worker
ExtraListings == 1 \* listings found beyond max_details
MaxClock == 1

(* Program constants *)

MinTitleLen == 5
MinDescLen == 50
DescWindow == 500

----------------------------------------------------------------------------
(* Text helpers: Python str operations on sequences of characters *)

Rep(c, n) == [i \in 1..n |-> c]

WhiteSpace == {" ", "\t", "\n", "\r", "\f"}

IsSpace(c) == c \in WhiteSpace

UpperCase == <<"A","B","C","D","E","F","G","H","I","J","K","L","M",
               "N","O","P","Q","R","S","T","U","V","W","X","Y","Z">>

LowerCase == <<"a","b","c","d","e","f","g","h","i","j","k","l","m",
               "n","o","p","q","r","s","t","u","v","w","x","y","z">>

LowerChar(c) ==
    IF \E k \in 1..26 : UpperCase[k] = c
    THEN LowerCase[CHOOSE k \in 1..26 : UpperCase[k] = c]
    ELSE c

\* str.lower()
Lower(s) == [i \in 1..Len(s) |-> LowerChar(s[i])]

\* str.strip()
Strip(s) ==
    LET keep == {i \in 1..Len(s) : ~IsSpace(s[i])}
    IN  IF keep = {} THEN <<>>
        ELSE LET lo == CHOOSE i \in keep : \A j \in keep : i <= j
                 hi == CHOOSE i \in keep : \A j \in keep : j <= i
             IN  SubSeq(s, lo, hi)

RECURSIVE SkipSpaces(_)
SkipSpaces(s) ==
    IF s # <<>> /\ IsSpace(s[1]) THEN SkipSpaces(Tail(s)) ELSE s

\* re.sub(r'\s+', ' ', s), computed on the two halves of s: a run of white
\* space that spans the cut gives one space
RECURSIVE CollapseWs(_)
CollapseWs(s) ==
    IF s = <<>> THEN <<>>
    ELSE IF Len(s) = 1 THEN (IF IsSpace(s[1]) THEN <<" ">> ELSE s)
    ELSE LET h == Len(s) \div 2
             l == CollapseWs(SubSeq(s, 1, h))
             r == CollapseWs(SubSeq(s, h + 1, Len(s)))
         IN  IF IsSpace(s[h]) /\ IsSpace(s[h + 1]) THEN l \o Tail(r)
             ELSE l \o r

\* sub in s
Contains(s, sub) ==
    \E i \in 0..(Len(s) - Len(sub)) :
        \A k \in 1..Len(sub) : s[i + k] = sub[k]

\* s[:n]
Prefix(s, n) == SubSeq(s, 1, IF Len(s) < n THEN Len(s) ELSE n)

IndexOf(s, c) ==
    IF \E i \in 1..Len(s) : s[i] = c
    THEN CHOOSE i \in 1..Len(s) : s[i] = c /\ \A j \in 1..(i - 1) : s[j] # c
    ELSE 0

----------------------------------------------------------------------------
(* pipeline/normalizer.py *)

\* title = re.sub(r'^\[.*?\]\s*', '', title)
StripLeadingTag(t) ==
    IF t # <<>> /\ t[1] = "[" /\ IndexOf(t, "]") > 0
    THEN SkipSpaces(SubSeq(t, IndexOf(t, "]") + 1, Len(t)))
    ELSE t

\* title = re.sub(r'\s*\[.*?\]$', '', title): the leftmost match starts at the
\* white space before the first "[" and runs to the closing "]" that ends
\* the title
StripTrailingTag(t) ==
    IF t # <<>> /\ t[Len(t)] = "]" /\ IndexOf(t, "[") > 0
    THEN LET p == IndexOf(t, "[")
             ws == {i \in 1..(p - 1) : \A j \in i..(p - 1) : IsSpace(t[j])}
             start == IF ws = {} THEN p
                      ELSE CHOOSE i \in ws : \A j \in ws : i <= j
         IN  SubSeq(t, 1, start - 1)
    ELSE t

clean_title(title) ==
    IF title = <<>> THEN <<>>
    ELSE StripTrailingTag(StripLeadingTag(Strip(CollapseWs(title))))

\* hashlib.sha256(...).hexdigest()[:32], taken to be injective on the
\* strings of the model: the digest is represented by the text it hashes
Sha256Hex32(text) == <<"sha256">> \o text

generate_fingerprint(title, company, description) ==
    LET normalized == Strip(Lower(title)) \o <<"|">> \o Strip(Lower(company))
    IN  Sha256Hex32(
            IF description # <<>>
            THEN normalized \o <<"|">>
                 \o Strip(Lower(CollapseWs(Prefix(description, DescWindow))))
            ELSE normalized)

\* A value of a text field of JobDetail.  A str is the sequence of its
\* characters; None is the empty sequence, which `v or default` treats as
\* it treats ""; an int is <<"#int">> followed by its digits and a list of
\* one str is <<"#list">> followed by that str's characters
PyInt(digits) == <<"#int">> \o digits

PyList(item) == <<"#list">> \o item

\* bool(v)
PyTruthy(v) == v # <<>> /\ v # PyInt(<<"0">>) /\ v # <<"#list">>

\* str(v)
PyStr(v) ==
    IF v # <<>> /\ v[1] = "#int" THEN Tail(v)
    ELSE IF v # <<>> /\ v[1] = "#list"
    THEN <<"[", "'">> \o Tail(v) \o <<"'", "]">>
    ELSE v

\* str(v or default)
StrOr(v, default) == PyStr(IF PyTruthy(v) THEN v ELSE default)

\* A value of JobDetail.posted_at: None, a str (text), or a number.  A
\* number of kind "num" is 1000 * ks + s seconds with 0 <= s < 1000; the
\* kinds "huge", "inf" and "nan" are a finite float of magnitude 1e22 or
\* more, an infinity (both with their sign in ks) and NaN
DateVal(kind, text, ks, s) == [kind |-> kind, text |-> text, ks |-> ks, s |-> s]

NoDate == DateVal("none", <<>>, 0, 0)

DateStr(text) == DateVal("str", text, 0, 0)

DateNum(ks, s) == DateVal("num", <<>>, ks, s)

\* 1e12 seconds, in units of 1000 seconds (normalizer.py:82)
MsThresholdKs == 1000000000

\* What _normalize_date returns: the isoformat() of an instant (1000 * ks + s
\* seconds and ms milliseconds after the epoch), the isoformat() of the
\* clock's reading, a text returned as it came, or the isoformat() of a
\* parsed calendar date (year ks, month s, day ms)
DateOut(kind, ks, s, ms, text) ==
    [kind |-> kind, ks |-> ks, s |-> s, ms |-> ms, text |-> text]

IsoNow(clock) == DateOut("now", clock, 0, 0, <<>>)

\* datetime.fromtimestamp(ts, tz=utc) accepts the years 1 to 9999:
\* -62135596800 <= ts < 253402300800; outside it raises ValueError
InDatetimeRange(ks, s) ==
    /\ (ks > -62135597 \/ (ks = -62135597 /\ s >= 200))
    /\ (ks < 253402300 \/ (ks = 253402300 /\ s <= 799))

Digits == <<"0","1","2","3","4","5","6","7","8","9">>

IsDigit(c) == \E k \in 1..10 : Digits[k] = c

DigitVal(c) == (CHOOSE k \in 1..10 : Digits[k] = c) - 1

RECURSIVE NumVal(_)
NumVal(ds) ==
    IF ds = <<>> THEN 0
    ELSE 10 * NumVal(SubSeq(ds, 1, Len(ds) - 1)) + DigitVal(ds[Len(ds)])

\* re.match(r'\d{4}-\d{2}-\d{2}', date_str)
IsoIsh(t) ==
    /\ Len(t) >= 10
    /\ \A i \in {1, 2, 3, 4, 6, 7, 9, 10} : IsDigit(t[i])
    /\ t[5] = "-" /\ t[8] = "-"

DaysInMonth(y, m) ==
    IF m \in {4, 6, 9, 11} THEN 30
    ELSE IF m # 2 THEN 31
    ELSE IF (y % 4 = 0 /\ y % 100 # 0) \/ y % 400 = 0 THEN 29 ELSE 28

\* The three numeric fields of a text of the shape D/D/YYYY (one or two
\* digits, one or two digits, four digits), or <<>>
SlashFields(t) ==
    LET cuts == {i \in 1..Len(t) : t[i] = "/"}
    IN  IF Cardinality(cuts) # 2 THEN <<>>
        ELSE LET c1 == CHOOSE i \in cuts : \A k \in cuts : i <= k
                 c2 == CHOOSE i \in cuts : \A k \in cuts : k <= i
                 a == SubSeq(t, 1, c1 - 1)
                 b == SubSeq(t, c1 + 1, c2 - 1)
                 y == SubSeq(t, c2 + 1, Len(t))
             IN  IF /\ Len(a) \in {1, 2} /\ Len(b) \in {1, 2} /\ Len(y) = 4
                    /\ \A i \in 1..Len(t) : i \in cuts \/ IsDigit(t[i])
                 THEN <<NumVal(a), NumVal(b), NumVal(y)>>
                 ELSE <<>>

ValidDate(y, m, d) == y >= 1 /\ m \in 1..12 /\ d >= 1 /\ d <= DaysInMonth(y, m)

\* The loop over formats (normalizer.py:95-113) on a text that holds no ':'
\* and no month name: the first eight formats raise ValueError on it, so that
\* "%m/%d/%Y" and then "%d/%m/%Y" decide; <<>> when every format failed
strptime_formats(t) ==
    LET f == SlashFields(Strip(t))
    IN  IF f = <<>> THEN <<>>
        ELSE IF ValidDate(f[3], f[1], f[2]) THEN <<f[3], f[1], f[2]>>
        ELSE IF ValidDate(f[3], f[2], f[1]) THEN <<f[3], f[2], f[1]>>
        ELSE <<>>

\* ts > 1e12 (normalizer.py:82)
AboveMsThreshold(d) ==
    \/ d.kind = "num" /\ (d.ks > MsThresholdKs
                          \/ (d.ks = MsThresholdKs /\ d.s > 0))
    \/ d.kind \in {"huge", "inf"} /\ d.ks > 0

\* _normalize_date lets an exception out: fromtimestamp raises OverflowError,
\* which `except (ValueError, OSError)` does not catch, when the timestamp
\* is infinite or beyond the platform's time_t
normalize_date_raises(date_val) == date_val.kind \in {"huge", "inf"}

\* _normalize_date where it returns (normalize_date_raises is false); clock
\* is what datetime.now(timezone.utc) reads during the call
normalize_date(date_val, clock) ==
    IF date_val.kind = "none" THEN IsoNow(clock)
    ELSE IF date_val.kind = "str" /\ date_val.text = <<>> THEN IsoNow(clock)
    ELSE IF date_val.kind = "num" /\ date_val.ks = 0 /\ date_val.s = 0
    THEN IsoNow(clock)
    ELSE IF date_val.kind = "nan" THEN IsoNow(clock)
    ELSE IF date_val.kind = "num"
    THEN IF AboveMsThreshold(date_val)
         THEN DateOut("instant", date_val.ks \div 1000, date_val.ks % 1000,
                      date_val.s, <<>>)
         ELSE IF InDatetimeRange(date_val.ks, date_val.s)
         THEN DateOut("instant", date_val.ks, date_val.s, 0, <<>>)
         ELSE IsoNow(clock)
    ELSE IF IsoIsh(date_val.text) THEN DateOut("text", 0, 0, 0, date_val.text)
    ELSE LET parsed == strptime_formats(date_val.text)
         IN  IF parsed # <<>>
             THEN DateOut("parsed", parsed[1], parsed[2], parsed[3], <<>>)
             ELSE IsoNow(clock)

SeniorWords ==
    { <<"s","e","n","i","o","r">>,
      <<"s","r",".">>,
      <<"s","r"," ">>,
      <<"l","e","a","d">>,
      <<"p","r","i","n","c","i","p","a","l">>,
      <<"s","t","a","f","f">>,
      <<"a","r","c","h","i","t","e","c","t">> }

JuniorWords ==
    { <<"j","u","n","i","o","r">>,
      <<"j","r",".">>,
      <<"j","r"," ">>,
      <<"e","n","t","r","y">>,
      <<"a","s","s","o","c","i","a","t","e">>,
      <<"t","r","a","i","n","e","e">>,
      <<"i","n","t","e","r","n">> }

MidWords ==
    { <<"m","i","d","-","l","e","v","e","l">>,
      <<"m","i","d"," ","l","e","v","e","l">>,
      <<"i","n","t","e","r","m","e","d","i","a","t","e">> }

ExecutiveWords ==
    { <<"d","i","r","e","c","t","o","r">>,
      <<"v","p">>,
      <<"v","i","c","e"," ","p","r","e","s","i","d","e","n","t">>,
      <<"h","e","a","d"," ","o","f">>,
      <<"c","h","i","e","f">>,
      <<"c","t","o">>,
      <<"c","e","o">> }

ManagerWords ==
    { <<"m","a","n","a","g","e","r">>,
      <<"m","g","r">> }

Senior == <<"S","e","n","i","o","r">>

Junior == <<"J","u","n","i","o","r">>

Mid == <<"M","i","d">>

Executive == <<"E","x","e","c","u","t","i","v","e">>

Manager == <<"M","a","n","a","g","e","r">>

AnyIn(words, lower) == \E w \in words : Contains(lower, w)

\* Mutant: the Manager keywords are tested before the Senior ones
infer_experience_manager_first(title) ==
    LET lower == Lower(title)
    IN  IF AnyIn(ManagerWords, lower) THEN Manager
        ELSE IF AnyIn(SeniorWords, lower) THEN Senior
        ELSE IF AnyIn(JuniorWords, lower) THEN Junior
        ELSE IF AnyIn(MidWords, lower) THEN Mid
        ELSE IF AnyIn(ExecutiveWords, lower) THEN Executive
        ELSE Mid

infer_experience(title) ==
    LET lower == Lower(title)
    IN  IF AnyIn(SeniorWords, lower) THEN Senior
        ELSE IF AnyIn(JuniorWords, lower) THEN Junior
        ELSE IF AnyIn(MidWords, lower) THEN Mid
        ELSE IF AnyIn(ExecutiveWords, lower) THEN Executive
        ELSE IF AnyIn(ManagerWords, lower) THEN Manager
        ELSE Mid

FullTime == <<"F","u","l","l","-","t","i","m","e">>

Anywhere == <<"A","n","y","w","h","e","r","e">>

Other == <<"O","t","h","e","r">>

USD == <<"U","S","D">>

Yearly == <<"y","e","a","r","l","y">>

\* normalize_job raises (the exception leaves through main.py:82)
normalize_raises(detail) == normalize_date_raises(detail.posted_at)

\* normalize_job where it returns; clock is the clock's reading during the
\* call
normalize_job(detail, clock) ==
    LET title == clean_title(StrOr(detail.title, <<>>))
        company == Strip(StrOr(detail.company_name, <<>>))
        description == StrOr(detail.description_text, <<>>)
        level == StrOr(detail.experience_level, <<>>)
    IN  \* source and source_job_id are names set to a str by every adapter:
        \* str(name or "") returns the name
        [source |-> detail.source,
         source_job_id |-> detail.source_job_id,
         title |-> title,
         company_name |-> company,
         company_logo_url |-> StrOr(detail.company_logo_url, <<>>),
         company_domain |-> StrOr(detail.company_domain, <<>>),
         description_html |-> StrOr(detail.description_html, <<>>),
         description_text |-> description,
         employment_type |-> StrOr(detail.employment_type, FullTime),
         remote_scope |-> StrOr(detail.remote_scope, Anywhere),
         location_text |-> StrOr(detail.location_text, <<>>),
         category |-> StrOr(detail.category, Other),
         experience_level |->
             IF level = <<>> THEN infer_experience(title) ELSE level,
         salary_min |-> detail.salary_min,
         salary_max |-> detail.salary_max,
         salary_currency |-> StrOr(detail.salary_currency, USD),
         salary_period |-> StrOr(detail.salary_period, Yearly),
         salary_text |-> StrOr(detail.salary_text, <<>>),
         posted_at |-> normalize_date(detail.posted_at, clock),
         apply_url_original |-> StrOr(detail.apply_url_original, <<>>),
         apply_url_final |-> StrOr(detail.apply_url_final, <<>>),
         canonical_url |-> StrOr(detail.canonical_url, <<>>),
         status |-> "active",
         tags |-> StrOr(detail.tags, <<>>),
         fingerprint_hash |->
             generate_fingerprint(title, company, description)]

----------------------------------------------------------------------------
(* config.py and adapters/base.py: the vocabulary tables and their lookups *)

PartTime == <<"P","a","r","t","-","t","i","m","e">>

Contract == <<"C","o","n","t","r","a","c","t">>

Internship == <<"I","n","t","e","r","n","s","h","i","p">>

CatData == <<"D","a","t","a">>

CatDesign == <<"D","e","s","i","g","n">>

CatDevOps == <<"D","e","v","O","p","s">>

CatEngineering == <<"E","n","g","i","n","e","e","r","i","n","g">>

CatFinance == <<"F","i","n","a","n","c","e">>

CatHR == <<"H","R">>

CatManagement == <<"M","a","n","a","g","e","m","e","n","t">>

CatMarketing == <<"M","a","r","k","e","t","i","n","g">>

CatProduct == <<"P","r","o","d","u","c","t">>

CatSales == <<"S","a","l","e","s">>

CatSupport == <<"S","u","p","p","o","r","t">>

CatWriting == <<"W","r","i","t","i","n","g">>

\* CATEGORY_MAP: <<key, value>>
CATEGORY_MAP ==
    { <<<<"p","r","o","g","r","a","m","m","i","n","g">>,
        CatEngineering>>,
      <<<<"s","o","f","t","w","a","r","e"," ","d","e","v","e","l","o","p","m","e","n","t">>,
        CatEngineering>>,
      <<<<"s","o","f","t","w","a","r","e"," ","e","n","g","i","n","e","e","r","i","n","g">>,
        CatEngineering>>,
      <<<<"d","e","v","e","l","o","p","m","e","n","t">>,
        CatEngineering>>,
      <<<<"d","e","v","e","l","o","p","e","r">>,
        CatEngineering>>,
      <<<<"d","e","v","e","l","o","p","e","r"," ","/"," ","e","n","g","i","n","e","e","r">>,
        CatEngineering>>,
      <<<<"e","n","g","i","n","e","e","r","i","n","g">>,
        CatEngineering>>,
      <<<<"f","u","l","l","-","s","t","a","c","k"," ","p","r","o","g","r","a","m","m","i","n","g">>,
        CatEngineering>>,
      <<<<"f","r","o","n","t","-","e","n","d"," ","p","r","o","g","r","a","m","m","i","n","g">>,
        CatEngineering>>,
      <<<<"b","a","c","k","-","e","n","d"," ","p","r","o","g","r","a","m","m","i","n","g">>,
        CatEngineering>>,
      <<<<"f","u","l","l"," ","s","t","a","c","k">>,
        CatEngineering>>,
      <<<<"f","r","o","n","t","e","n","d">>,
        CatEngineering>>,
      <<<<"b","a","c","k","e","n","d">>,
        CatEngineering>>,
      <<<<"w","e","b"," ","d","e","v","e","l","o","p","m","e","n","t">>,
        CatEngineering>>,
      <<<<"d","e","s","i","g","n">>,
        CatDesign>>,
      <<<<"c","r","e","a","t","i","v","e"," ","&"," ","d","e","s","i","g","n">>,
        CatDesign>>,
      <<<<"d","e","s","i","g","n"," ","&"," ","u","x">>,
        CatDesign>>,
      <<<<"u","i","/","u","x">>,
        CatDesign>>,
      <<<<"m","a","r","k","e","t","i","n","g">>,
        CatMarketing>>,
      <<<<"s","a","l","e","s"," ","a","n","d"," ","m","a","r","k","e","t","i","n","g">>,
        CatMarketing>>,
      <<<<"m","a","r","k","e","t","i","n","g"," ","&"," ","s","a","l","e","s">>,
        CatMarketing>>,
      <<<<"s","a","l","e","s">>,
        CatSales>>,
      <<<<"b","u","s","i","n","e","s","s"," ","d","e","v","e","l","o","p","m","e","n","t">>,
        CatSales>>,
      <<<<"b","u","s","i","n","e","s","s"," ","d","e","v","e","l","o","p","m","e","n","t"," ","&"," ","s","a","l","e","s">>,
        CatSales>>,
      <<<<"c","u","s","t","o","m","e","r"," ","s","u","p","p","o","r","t">>,
        CatSupport>>,
      <<<<"c","u","s","t","o","m","e","r"," ","s","u","c","c","e","s","s">>,
        CatSupport>>,
      <<<<"c","u","s","t","o","m","e","r"," ","s","e","r","v","i","c","e">>,
        CatSupport>>,
      <<<<"d","e","v","o","p","s"," ","a","n","d"," ","s","y","s","a","d","m","i","n">>,
        CatDevOps>>,
      <<<<"d","e","v","o","p","s"," ","&"," ","i","n","f","r","a","s","t","r","u","c","t","u","r","e">>,
        CatDevOps>>,
      <<<<"d","e","v","o","p","s">>,
        CatDevOps>>,
      <<<<"s","y","s","a","d","m","i","n">>,
        CatDevOps>>,
      <<<<"s","y","s","t","e","m"," ","a","d","m","i","n","i","s","t","r","a","t","i","o","n">>,
        CatDevOps>>,
      <<<<"m","a","n","a","g","e","m","e","n","t"," ","a","n","d"," ","f","i","n","a","n","c","e">>,
        CatManagement>>,
      <<<<"m","a","n","a","g","e","m","e","n","t">>,
        CatManagement>>,
      <<<<"m","a","n","a","g","e","m","e","n","t"," ","/"," ","o","p","e","r","a","t","i","o","n","s">>,
        CatManagement>>,
      <<<<"p","r","o","d","u","c","t"," ","&"," ","o","p","e","r","a","t","i","o","n","s">>,
        CatManagement>>,
      <<<<"p","r","o","d","u","c","t">>,
        CatProduct>>,
      <<<<"o","p","e","r","a","t","i","o","n","s">>,
        CatManagement>>,
      <<<<"d","a","t","a"," ","s","c","i","e","n","c","e"," ","&"," ","a","n","a","l","y","t","i","c","s">>,
        CatData>>,
      <<<<"d","a","t","a"," ","s","c","i","e","n","c","e">>,
        CatData>>,
      <<<<"d","a","t","a">>,
        CatData>>,
      <<<<"a","i"," ","&"," ","d","a","t","a">>,
        CatData>>,
      <<<<"w","r","i","t","i","n","g">>,
        CatWriting>>,
      <<<<"c","o","n","t","e","n","t"," ","&"," ","e","d","i","t","o","r","i","a","l">>,
        CatWriting>>,
      <<<<"w","r","i","t","i","n","g"," ","&"," ","e","d","i","t","i","n","g">>,
        CatWriting>>,
      <<<<"c","o","n","t","e","n","t">>,
        CatWriting>>,
      <<<<"c","o","p","y","w","r","i","t","i","n","g">>,
        CatWriting>>,
      <<<<"f","i","n","a","n","c","e">>,
        CatFinance>>,
      <<<<"f","i","n","a","n","c","e"," ","&"," ","a","c","c","o","u","n","t","i","n","g">>,
        CatFinance>>,
      <<<<"f","i","n","a","n","c","e"," ","a","n","d"," ","a","c","c","o","u","n","t","i","n","g">>,
        CatFinance>>,
      <<<<"a","c","c","o","u","n","t","i","n","g">>,
        CatFinance>>,
      <<<<"h","r"," ","&"," ","r","e","c","r","u","i","t","i","n","g">>,
        CatHR>>,
      <<<<"h","u","m","a","n"," ","r","e","s","o","u","r","c","e","s">>,
        CatHR>>,
      <<<<"r","e","c","r","u","i","t","i","n","g">>,
        CatHR>>,
      <<<<"a","l","l"," ","o","t","h","e","r"," ","r","e","m","o","t","e">>,
        Other>>,
      <<<<"o","t","h","e","r">>,
        Other>>,
      <<<<"v","a","r","i","o","u","s">>,
        Other>>,
      <<<<"c","o","n","s","u","l","t","i","n","g">>,
        Other>>,
      <<<<"l","e","g","a","l">>,
        Other>>,
      <<<<"e","d","u","c","a","t","i","o","n">>,
        Other>>,
      <<<<"h","e","a","l","t","h","c","a","r","e">>,
        Other>>,
      <<<<"a","d","m","i","n">>,
        Other>>,
      <<<<"a","d","m","i","n"," ","/"," ","v","i","r","t","u","a","l"," ","a","s","s","i","s","t","a","n","t">>,
        Other>>,
      <<<<"v","i","r","t","u","a","l"," ","a","s","s","i","s","t","a","n","t">>,
        Other>> }

\* EMPLOYMENT_TYPE_MAP: <<key, value>>
EMPLOYMENT_TYPE_MAP ==
    { <<<<"f","u","l","l","-","t","i","m","e">>, FullTime>>,
      <<<<"f","u","l","l"," ","t","i","m","e">>, FullTime>>,
      <<<<"f","u","l","l","t","i","m","e">>, FullTime>>,
      <<<<"f","t">>, FullTime>>,
      <<<<"p","a","r","t","-","t","i","m","e">>, PartTime>>,
      <<<<"p","a","r","t"," ","t","i","m","e">>, PartTime>>,
      <<<<"p","a","r","t","t","i","m","e">>, PartTime>>,
      <<<<"p","t">>, PartTime>>,
      <<<<"c","o","n","t","r","a","c","t">>, Contract>>,
      <<<<"c","o","n","t","r","a","c","t","o","r">>, Contract>>,
      <<<<"f","r","e","e","l","a","n","c","e">>, Contract>>,
      <<<<"i","n","t","e","r","n","s","h","i","p">>, Internship>>,
      <<<<"i","n","t","e","r","n">>, Internship>> }

\* table.get(key, default)
MapGet(table, key, default) ==
    IF \E e \in table : e[1] = key
    THEN (CHOOSE e \in table : e[1] = key)[2]
    ELSE default

Amp == <<"&","a","m","p",";">>

\* raw.replace("&amp;", "&")
RECURSIVE ReplaceAmp(_)
ReplaceAmp(t) ==
    IF t = <<>> THEN <<>>
    ELSE IF Len(t) >= 5 /\ SubSeq(t, 1, 5) = Amp
    THEN <<"&">> \o ReplaceAmp(SubSeq(t, 6, Len(t)))
    ELSE <<t[1]>> \o ReplaceAmp(Tail(t))

\* raw[0] when raw is a list (of one str), raw otherwise
FirstItem(raw) == IF raw # <<>> /\ raw[1] = "#list" THEN Tail(raw) ELSE raw

\* BaseAdapter.normalize_category
normalize_category(raw) ==
    IF ~PyTruthy(raw) THEN Other
    ELSE MapGet(CATEGORY_MAP,
                Lower(ReplaceAmp(Strip(PyStr(FirstItem(raw))))), Other)

\* BaseAdapter.normalize_employment_type
normalize_employment_type(raw) ==
    IF ~PyTruthy(raw) THEN FullTime
    ELSE MapGet(EMPLOYMENT_TYPE_MAP,
                Lower(Strip(PyStr(FirstItem(raw)))), FullTime)

\* Characters outside ASCII are written by their names
EnDash == "EN DASH"

EmDash == "EM DASH"

\* The first position from i on whose character is not in the class S
RECURSIVE Span(_, _, _)
Span(s, i, S) ==
    IF i <= Len(s) /\ s[i] \in S THEN Span(s, i + 1, S) ELSE i

DigitChars == {Digits[k] : k \in 1..10}

\* F applied to the value of v, which is computed once
With(v, F(_)) == CHOOSE r \in {F(x) : x \in {v}} : TRUE

\* [\d,]+(?:\.\d+)? matched at position i: the position after the match,
\* 0 when there is none
NumberEnd(s, i) ==
    With(Span(s, i, DigitChars \cup {","}), LAMBDA j :
        IF j = i THEN 0
        ELSE IF j <= Len(s) /\ s[j] = "."
        THEN With(Span(s, j + 1, DigitChars), LAMBDA d :
                 IF d > j + 1 THEN d ELSE j)
        ELSE j)

\* \s*[kK]?\s* matched at position i: the position after the match
AfterK(s, i) ==
    With(Span(s, i, WhiteSpace), LAMBDA j :
        Span(s, IF j <= Len(s) /\ s[j] \in {"k", "K"} THEN j + 1 ELSE j,
             WhiteSpace))

\* \s*\$?\s* matched at position i: the position after the match
AfterDollar(s, i) ==
    With(Span(s, i, WhiteSpace), LAMBDA g :
        Span(s, IF g <= Len(s) /\ s[g] = "$" THEN g + 1 ELSE g, WhiteSpace))

\* money_pattern (base.py:213) matched at the "$" of position i: whether it
\* matches, the spans of its two groups and the position after the match.
\* The classes of adjacent pieces are disjoint, so the greedy match is the
\* only one; the optional second part is dropped when it cannot be completed
MoneyMatch(s, i) ==
    With(Span(s, i + 1, WhiteSpace), LAMBDA a :
    With(NumberEnd(s, a), LAMBDA b :
        IF b = 0 THEN [ok |-> FALSE]
        ELSE
    With(AfterK(s, b), LAMBDA e :
    With(Span(s, e, {"-", EnDash, EmDash, "t", "o"}), LAMBDA f :
    With(AfterDollar(s, f), LAMBDA h :
    With(NumberEnd(s, h), LAMBDA n :
        IF f = e \/ n = 0
        THEN [ok |-> TRUE, g1 |-> SubSeq(s, a, b - 1), g2 |-> <<>>,
              end |-> e, start |-> i]
        ELSE [ok |-> TRUE, g1 |-> SubSeq(s, a, b - 1),
              g2 |-> SubSeq(s, h, n - 1), end |-> AfterK(s, n),
              start |-> i]))))))

\* re.search(money_pattern, text) from position i on: the match at the
\* leftmost "$" that has one
RECURSIVE MoneySearch(_, _)
MoneySearch(s, i) ==
    IF i > Len(s) THEN [ok |-> FALSE]
    ELSE IF s[i] # "$" THEN MoneySearch(s, i + 1)
    ELSE With(MoneyMatch(s, i), LAMBDA m :
             IF m.ok THEN m ELSE MoneySearch(s, i + 1))

\* str.replace(",", "")
RECURSIVE WithoutCommas(_)
WithoutCommas(t) ==
    IF t = <<>> THEN <<>>
    ELSE IF t[1] = "," THEN WithoutCommas(Tail(t))
    ELSE <<t[1]>> \o WithoutCommas(Tail(t))

\* float(t) in thousandths, for a t of digits with at most three decimals
\* (such a value times 1000 is computed exactly for the decimals 0, 5, 25,
\* 75, 125, ... that the inputs use)
Thousandths(t) ==
    With(IndexOf(t, "."), LAMBDA d :
        IF d = 0 THEN 1000 * NumVal(t)
        ELSE 1000 * NumVal(SubSeq(t, 1, d - 1))
             + NumVal(Prefix(SubSeq(t, d + 1, Len(t)) \o <<"0","0","0">>, 3)))

\* base.py:216-220 and 223-227: the value of one group; has_k says whether
\* "k" is anywhere in the matched text: then, or for a value below 1000, the
\* value is multiplied by 1000
SalaryValue(group, has_k) ==
    With(Thousandths(WithoutCommas(group)), LAMBDA v :
        IF has_k \/ v < 1000 * 1000 THEN v ELSE v \div 1000)

\* BaseAdapter.extract_salary: the two bounds of its result (the currency,
\* the period and the text are not read by the store's salary columns)
extract_salary(text) ==
    With(MoneySearch(text, 1), LAMBDA m :
        IF text = <<>> \/ ~m.ok
        THEN [salary_min |-> <<>>, salary_max |-> <<>>]
        ELSE With(\E j \in m.start..(m.end - 1) : text[j] \in {"k", "K"},
                  LAMBDA has_k :
                 [salary_min |-> <<SalaryValue(m.g1, has_k)>>,
                  salary_max |-> IF m.g2 = <<>> THEN <<>>
                                 ELSE <<SalaryValue(m.g2, has_k)>>]))

----------------------------------------------------------------------------
(* pipeline/quality.py *)

spam_indicators ==
    { <<"t","e","s","t"," ","j","o","b">>,
      <<"t","e","s","t"," ","p","o","s","t","i","n","g">>,
      <<"d","o"," ","n","o","t"," ","a","p","p","l","y">>,
      <<"p","l","a","c","e","h","o","l","d","e","r">>,
      <<"l","o","r","e","m"," ","i","p","s","u","m">>,
      <<"a","s","d","f">> }

Reason(msg, n, title) == [msg |-> msg, n |-> n, title |-> title]

Verdict(ok, reason) == [ok |-> ok, reason |-> reason]

\* Mutant: the URL rule is tested before the description rule
passes_quality_url_first(job_data) ==
    LET title == Strip(job_data.title)
        company == Strip(job_data.company_name)
        description == Strip(job_data.description_text)
        apply_url == IF job_data.apply_url_final # <<>>
                     THEN job_data.apply_url_final
                     ELSE job_data.apply_url_original
        canonical_url == job_data.canonical_url
    IN  IF title = <<>> \/ Len(title) < MinTitleLen
        THEN Verdict(FALSE, Reason("Missing or too-short title", 0, <<>>))
        ELSE IF company = <<>>
        THEN Verdict(FALSE, Reason("Missing company name", 0, <<>>))
        ELSE IF apply_url = <<>> /\ canonical_url = <<>>
        THEN Verdict(FALSE,
                     Reason("Missing apply URL and canonical URL", 0, <<>>))
        ELSE IF description = <<>> \/ Len(description) < MinDescLen
        THEN Verdict(FALSE,
                     Reason("Description too short", Len(description), <<>>))
        ELSE IF \E s \in spam_indicators : Contains(Lower(title), s)
        THEN Verdict(FALSE, Reason("Spam-like title", 0, title))
        ELSE Verdict(TRUE, Reason("OK", 0, <<>>))

\* Mutant: a description of exactly 50 characters is still too short
passes_quality_desc_le(job_data) ==
    LET title == Strip(job_data.title)
        company == Strip(job_data.company_name)
        description == Strip(job_data.description_text)
        apply_url == IF job_data.apply_url_final # <<>>
                     THEN job_data.apply_url_final
                     ELSE job_data.apply_url_original
        canonical_url == job_data.canonical_url
    IN  IF title = <<>> \/ Len(title) < MinTitleLen
        THEN Verdict(FALSE, Reason("Missing or too-short title", 0, <<>>))
        ELSE IF company = <<>>
        THEN Verdict(FALSE, Reason("Missing company name", 0, <<>>))
        ELSE IF description = <<>> \/ Len(description) <= MinDescLen
        THEN Verdict(FALSE,
                     Reason("Description too short", Len(description), <<>>))
        ELSE IF apply_url = <<>> /\ canonical_url = <<>>
        THEN Verdict(FALSE,
                     Reason("Missing apply URL and canonical URL", 0, <<>>))
        ELSE IF \E s \in spam_indicators : Contains(Lower(title), s)
        THEN Verdict(FALSE, Reason("Spam-like title", 0, title))
        ELSE Verdict(TRUE, Reason("OK", 0, <<>>))

passes_quality(job_data) ==
    LET title == Strip(job_data.title)
        company == Strip(job_data.company_name)
        description == Strip(job_data.description_text)
        apply_url == IF job_data.apply_url_final # <<>>
                     THEN job_data.apply_url_final
                     ELSE job_data.apply_url_original
        canonical_url == job_data.canonical_url
    IN  IF title = <<>> \/ Len(title) < MinTitleLen
        THEN Verdict(FALSE, Reason("Missing or too-short title", 0, <<>>))
        ELSE IF company = <<>>
        THEN Verdict(FALSE, Reason("Missing company name", 0, <<>>))
        ELSE IF description = <<>> \/ Len(description) < MinDescLen
        THEN Verdict(FALSE,
                     Reason("Description too short", Len(description), <<>>))
        ELSE IF apply_url = <<>> /\ canonical_url = <<>>
        THEN Verdict(FALSE,
                     Reason("Missing apply URL and canonical URL", 0, <<>>))
        ELSE IF \E s \in spam_indicators : Contains(Lower(title), s)
        THEN Verdict(FALSE, Reason("Spam-like title", 0, title))
        ELSE Verdict(TRUE, Reason("OK", 0, <<>>))

----------------------------------------------------------------------------
(* db.py: the jobs table *)

Workers == {1, 2}

\* A nullable column holds <<>> (NULL) or <<v>>
None == <<>>

Some(v) == <<v>>

KeyOf(r) == <<r.source, r.source_job_id>>

RowsWithKey(rows, src, sid) ==
    {r \in rows : r.source = src /\ r.source_job_id = sid}

\* Mutant: the lookup compares the wrong column with the fingerprint
check_duplicate_fingerprint_wrong_column(rows, fingerprint, exclude_id) ==
    {r \in rows : /\ r.title = fingerprint
                  /\ r.status = "active"
                  /\ (exclude_id # None => r.id # exclude_id[1])}

\* SELECT id, source FROM jobs WHERE fingerprint_hash = ? [AND id != ?]
\*   AND status = 'active'
check_duplicate_fingerprint(rows, fingerprint, exclude_id) ==
    {r \in rows : /\ r.fingerprint_hash = fingerprint
                  /\ r.status = "active"
                  /\ (exclude_id # None => r.id # exclude_id[1])}

\* Mutant: fingerprint_hash is missing from the list of updated keys
UpdatedRow_keeps_fingerprint(r, job_data, t) ==
    [r EXCEPT !.title = job_data.title,
              !.company_name = job_data.company_name,
              !.description_text = job_data.description_text,
              !.salary_min = IF job_data.salary_min # None
                             THEN job_data.salary_min ELSE @,
              !.salary_max = IF job_data.salary_max # None
                             THEN job_data.salary_max ELSE @,
              !.apply_url_original = job_data.apply_url_original,
              !.apply_url_final = job_data.apply_url_final,
              !.canonical_url = job_data.canonical_url,
              !.status = job_data.status,
              !.updated_at = t,
              !.last_checked_at = t]

\* UPDATE jobs SET <every key whose value is not None>, updated_at = now,
\*   last_checked_at = now WHERE id = ?
UpdatedRow(r, job_data, t) ==
    [r EXCEPT !.title = job_data.title,
              !.company_name = job_data.company_name,
              !.description_text = job_data.description_text,
              !.salary_min = IF job_data.salary_min # None
                             THEN job_data.salary_min ELSE @,
              !.salary_max = IF job_data.salary_max # None
                             THEN job_data.salary_max ELSE @,
              !.apply_url_original = job_data.apply_url_original,
              !.apply_url_final = job_data.apply_url_final,
              !.canonical_url = job_data.canonical_url,
              !.status = job_data.status,
              !.fingerprint_hash = job_data.fingerprint_hash,
              !.updated_at = t,
              !.last_checked_at = t]

\* INSERT INTO jobs (...): the timestamps take their DEFAULT datetime('now')
InsertedRow(job_data, id, t) ==
    [id |-> id,
     source |-> job_data.source,
     source_job_id |-> job_data.source_job_id,
     title |-> job_data.title,
     company_name |-> job_data.company_name,
     description_text |-> job_data.description_text,
     salary_min |-> job_data.salary_min,
     salary_max |-> job_data.salary_max,
     apply_url_original |-> job_data.apply_url_original,
     apply_url_final |-> job_data.apply_url_final,
     canonical_url |-> job_data.canonical_url,
     status |-> job_data.status,
     fingerprint_hash |-> job_data.fingerprint_hash,
     created_at |-> t,
     updated_at |-> t,
     last_checked_at |-> t]

\* Mutant: the table without its UNIQUE(source, source_job_id) constraint
ConstraintViolated_no_unique(rows, row) ==
    \E r \in rows : r.id = row.id

\* Mutant: a unique index on the fingerprint of active rows as well
ConstraintViolated_fingerprint(rows, row) ==
    \E r \in rows :
        \/ r.id = row.id
        \/ <<r.source, r.source_job_id>> = <<row.source, row.source_job_id>>
        \/ (r.status = "active" /\ row.status = "active"
            /\ r.fingerprint_hash = row.fingerprint_hash)

\* The table's constraints: id TEXT PRIMARY KEY, UNIQUE(source, source_job_id)
ConstraintViolated(rows, row) ==
    \E r \in rows : r.id = row.id \/ KeyOf(r) = KeyOf(row)

\* Mutant: a job observed as not active is deleted from the table
upsert_write_delete(rows, job_data, foundId, id, t) ==
    IF foundId # None
    THEN [raised |-> FALSE,
          rows |-> IF job_data.status # "active"
                   THEN {r \in rows : r.id # foundId[1]}
                   ELSE {IF r.id = foundId[1] THEN UpdatedRow(r, job_data, t)
                         ELSE r : r \in rows}]
    ELSE LET row == InsertedRow(job_data, id, t)
         IN  IF ConstraintViolated(rows, row)
             THEN [raised |-> TRUE, rows |-> rows]
             ELSE [raised |-> FALSE, rows |-> rows \cup {row}]

\* upsert_job's write (db.py:120-161), given the row id its SELECT found:
\* the table after it, and whether the statement raised IntegrityError
upsert_write(rows, job_data, foundId, id, t) ==
    IF foundId # None
    THEN [raised |-> FALSE,
          rows |-> {IF r.id = foundId[1] THEN UpdatedRow(r, job_data, t)
                    ELSE r : r \in rows}]
    ELSE LET row == InsertedRow(job_data, id, t)
         IN  IF ConstraintViolated(rows, row)
             THEN [raised |-> TRUE, rows |-> rows]
             ELSE [raised |-> FALSE, rows |-> rows \cup {row}]

\* Mutant: the id carried by job_data replaces the id of the stored row
upsert_job_takes_id(rows, job_data, given, gen, t) ==
    LET m == RowsWithKey(rows, job_data.source, job_data.source_job_id)
        job_id == IF given # None THEN given[1] ELSE gen
        w == IF m = {}
             THEN upsert_write(rows, job_data, None, job_id, t)
             ELSE [raised |-> FALSE,
                   rows |-> {IF r \in m
                             THEN [UpdatedRow(r, job_data, t)
                                      EXCEPT !.id = job_id]
                             ELSE r : r \in rows}]
    IN  [raised |-> w.raised, rows |-> w.rows, updated |-> m # {},
         id |-> IF w.raised THEN None ELSE Some(job_id)]

\* upsert_job as one call (db.py:110-161): job_id = job_data.get("id") or
\* gen_id(), the SELECT by key, then the UPDATE or the INSERT; it returns
\* the row's id unless the INSERT raised
upsert_job(rows, job_data, given, gen, t) ==
    LET m == RowsWithKey(rows, job_data.source, job_data.source_job_id)
        foundId == IF m = {} THEN None ELSE Some((CHOOSE r \in m : TRUE).id)
        job_id == IF given # None THEN given[1] ELSE gen
        w == upsert_write(rows, job_data, foundId, job_id, t)
    IN  [raised |-> w.raised, rows |-> w.rows, updated |-> foundId # None,
         id |-> IF w.raised THEN None
                ELSE IF foundId # None THEN foundId ELSE Some(job_id)]

\* log_crawl: INSERT INTO crawl_log (source, stage); the other columns take
\* their defaults (db.py:91-102); finishes counts the UPDATEs of the entry
log_crawl(src, stage) ==
    [source |-> src, stage |-> stage, jobs_found |-> 0, jobs_new |-> 0,
     jobs_updated |-> 0, errors |-> 0, status |-> "running",
     error_message |-> None, finishes |-> 0]

\* finish_crawl: status = "error" if error_message else "completed"; an
\* empty str is as false as None
finish_crawl(entry, jobs_found, jobs_new, jobs_updated, errors, error_message) ==
    [entry EXCEPT !.jobs_found = jobs_found, !.jobs_new = jobs_new,
                  !.jobs_updated = jobs_updated, !.errors = errors,
                  !.status = IF error_message # None
                                /\ error_message[1] # <<>>
                             THEN "error" ELSE "completed",
                  !.error_message = error_message,
                  !.finishes = @ + 1]

----------------------------------------------------------------------------
(* pipeline/deduper.py *)

\* Mutant: the lookup's exception is caught and read as "no duplicate"
check_duplicate_swallow(rows, up, job_data) ==
    IF job_data.fingerprint_hash = <<>> \/ ~up
    THEN [raised |-> FALSE, dup |-> None]
    ELSE LET m == {r \in rows : /\ r.fingerprint_hash
                                      = job_data.fingerprint_hash
                                 /\ r.status = "active"}
         IN  [raised |-> FALSE,
              dup |-> IF m = {} THEN None
                      ELSE LET r == CHOOSE r \in m : TRUE
                           IN  Some([id |-> r.id, source |-> r.source])]

\* Mutant: a row with the job's apply_url_final counts as a duplicate too
check_duplicate_or_apply_url(rows, up, job_data) ==
    IF job_data.fingerprint_hash = <<>>
    THEN [raised |-> FALSE, dup |-> None]
    ELSE IF ~up
    THEN [raised |-> TRUE, dup |-> None]
    ELSE LET m == check_duplicate_fingerprint(
                      rows, job_data.fingerprint_hash, None)
                  \cup {r \in rows :
                          /\ r.apply_url_final = job_data.apply_url_final
                          /\ r.status = "active"}
         IN  [raised |-> FALSE,
              dup |-> IF m = {} THEN None
                      ELSE LET r == CHOOSE r \in m : TRUE
                           IN  Some([id |-> r.id, source |-> r.source])]

\* check_duplicate: the lookup's exception is not caught; any matching row
\* is a duplicate (fetchone() returns one of them)
check_duplicate(rows, up, job_data) ==
    IF job_data.fingerprint_hash = <<>>
    THEN [raised |-> FALSE, dup |-> None]
    ELSE IF ~up
    THEN [raised |-> TRUE, dup |-> None]
    ELSE LET m == check_duplicate_fingerprint(
                      rows, job_data.fingerprint_hash, None)
         IN  [raised |-> FALSE,
              dup |-> IF m = {} THEN None
                      ELSE LET r == CHOOSE r \in m : TRUE
                           IN  Some([id |-> r.id, source |-> r.source])]

----------------------------------------------------------------------------
(* main.py: run_source *)

Sources == {"jobicy", "himalayas"}

JobIds == {"1", "2"}

Counters == {"jobs_new", "jobs_updated", "duplicates", "quality_rejected",
             "errors"}

InitStats == [listings_found |-> 0, details_fetched |-> 0, jobs_new |-> 0,
              jobs_updated |-> 0, duplicates |-> 0, quality_rejected |-> 0,
              errors |-> 0]

Bump(st, field) == [st EXCEPT ![field] = @ + 1]

Min(a, b) == IF a < b THEN a ELSE b

\* str(e) of an exception that leaves crawl_listings: some text, or none
\* (a bare raise of the class, MemoryError(), a failed assert)
ExceptionTexts == { <<"b","o","o","m">>, <<>> }

\* main.py:63
NoListingsFound == <<"N","o"," ","l","i","s","t","i","n","g","s"," ",
                     "f","o","u","n","d">>

\* str(e) of sqlite3's exception when a statement fails
StoreErrorText == <<"d","a","t","a","b","a","s","e"," ","i","s"," ",
                    "l","o","c","k","e","d">>

\* What the extraction layer may hand over for one listing
Txt5a == <<"N","u","r","s","e">>

Txt5b == <<"B","a","k","e","r">>

Acme == <<"A","c","m","e">>

Url == <<"u">>

PostedIso == <<"2","0","2","3","-","1","1","-","1","4">>

RawContents ==
    { [title |-> <<" ">> \o Txt5a \o <<" ","[","x","]">>,
       description_text |-> Rep("d", MinDescLen)],
      [title |-> Txt5b, description_text |-> Rep("d", MinDescLen)],
      [title |-> Txt5b, description_text |-> Rep("d", MinDescLen - 1)] }

Detail(src, sid, c) ==
    [source |-> src, source_job_id |-> sid, title |-> c.title,
     company_name |-> Acme, company_logo_url |-> <<>>,
     company_domain |-> <<>>, description_html |-> <<>>,
     description_text |-> c.description_text,
     employment_type |-> FullTime, remote_scope |-> Anywhere,
     location_text |-> <<>>, category |-> <<>>, experience_level |-> <<>>,
     salary_min |-> None, salary_max |-> None,
     salary_currency |-> USD, salary_period |-> Yearly,
     salary_text |-> <<>>, posted_at |-> DateStr(PostedIso),
     apply_url_original |-> Url, apply_url_final |-> <<>>,
     canonical_url |-> <<>>, status |-> "active", tags |-> <<>>]

\* Mutant: the adapter gives every detail the same id, whatever its listing
detail_job_id_cut(listing_id) == "1"

\* crawl_detail hands the listing's id on: source_job_id =
\* listing.source_job_id (weworkremotely.py:166, str() of it in
\* jobicy.py:134 and himalayas.py:125, where it is a str already)
detail_job_id(listing_id) == listing_id

\* crawl_detail's outcomes: an exception, None, or a JobDetail, one of them
\* with a pubDate that JSON decoded to an infinite float
DetailOutcomes(src) ==
    {[kind |-> "raise"], [kind |-> "none"]}
    \cup {[kind |-> "detail", listing |-> sid,
           detail |-> Detail(src, detail_job_id(sid), c)] :
              sid \in JobIds, c \in RawContents}
    \cup {[kind |-> "detail", listing |-> "1",
           detail |-> [Detail(src, detail_job_id("1"), c) EXCEPT
                          !.posted_at = DateVal("inf", <<>>, 1, 0)]] :
              c \in {x \in RawContents : x.title = Txt5b
                                         /\ Len(x.description_text) = MinDescLen}}

\* main.py:72-83 on each outcome, with the clock reading t: job_data =
\* normalize_job(detail) and passes, reason = passes_quality(job_data)
ListingOutcomes ==
    [src \in Sources, t \in 0..MaxClock |->
        {IF o.kind # "detail"
         THEN [kind |-> o.kind, listing |-> "", job_data |-> None,
               passes |-> FALSE]
         ELSE IF normalize_raises(o.detail)
         THEN [kind |-> "normalize_raises", listing |-> o.listing,
               job_data |-> None, passes |-> FALSE]
         ELSE [kind |-> "detail", listing |-> o.listing,
               job_data |-> Some(normalize_job(o.detail, t)),
               passes |-> passes_quality(normalize_job(o.detail, t)).ok] :
             o \in DetailOutcomes(src)}]

\* The loop's next position once listing i is done (main.py:70)
next_listing(i, n) == IF i + 1 < n THEN "detail" ELSE "finish"

\* Mutant: the listing's exception escapes to the outer handler
on_listing_error_abort(st, i, n) ==
    [tally |-> "errors", stats |-> st, idx |-> i, pc |-> "fatal"]

\* except Exception (main.py:112-114): count the error, go on with the batch
on_listing_error(st, i, n) ==
    [tally |-> "errors", stats |-> Bump(st, "errors"), idx |-> i + 1,
     pc |-> next_listing(i, n)]

\* if not passes (main.py:84-87)
on_quality_reject(st, i, n) ==
    [tally |-> "quality_rejected", stats |-> Bump(st, "quality_rejected"),
     idx |-> i + 1, pc |-> next_listing(i, n)]

\* if dup (main.py:91-93): only the counter changes
on_duplicate(st, i, n) ==
    [tally |-> "duplicates", stats |-> Bump(st, "duplicates"), idx |-> i + 1,
     pc |-> next_listing(i, n)]

\* Mutant: the duplicate branch moves the earlier entry to the new key
rows_after_duplicate_overwrite(rows, job_data) ==
    {IF r.fingerprint_hash = job_data.fingerprint_hash
     THEN [r EXCEPT !.source = job_data.source,
                    !.source_job_id = job_data.source_job_id]
     ELSE r : r \in rows}

\* The table after the duplicate branch (main.py:91-93): as it was
rows_after_duplicate(rows, job_data) == rows

\* Mutant: jobs_new is counted for an update too (a missing else)
on_upsert_done_no_else(st, ex, i, n) ==
    [tally |-> IF ex THEN "jobs_updated" ELSE "jobs_new",
     stats |-> IF ex THEN Bump(Bump(st, "jobs_updated"), "jobs_new")
               ELSE Bump(st, "jobs_new"),
     idx |-> i + 1, pc |-> IF i + 1 < n THEN "detail" ELSE "finish"]

\* main.py:104-107
on_upsert_done(st, ex, i, n) ==
    [tally |-> IF ex THEN "jobs_updated" ELSE "jobs_new",
     stats |-> IF ex THEN Bump(st, "jobs_updated") ELSE Bump(st, "jobs_new"),
     idx |-> i + 1, pc |-> next_listing(i, n)]

Finish(w, r) ==
    /\ stats' = [stats EXCEPT ![w] = r.stats]
    /\ idx' = [idx EXCEPT ![w] = r.idx]
    /\ pc' = [pc EXCEPT ![w] = r.pc]
    /\ last' = [last EXCEPT ![w] = [tally |-> r.tally, stage |-> pc[w]]]
    /\ job' = [job EXCEPT ![w] = None]
    /\ listing' = [listing EXCEPT ![w] = None]
    /\ existing' = [existing EXCEPT ![w] = FALSE]
    /\ found' = [found EXCEPT ![w] = None]

InitPipeline(md) ==
    /\ max_details = [w \in Workers |-> md]
    /\ crawl_log = [w \in Workers |-> None]
    /\ exc = [w \in Workers |-> None]
    /\ jobs = {}
    /\ nextId = 1
    /\ now = 0
    /\ storeUp = TRUE
    /\ pc = [w \in Workers |-> "init"]
    /\ idx = [w \in Workers |-> 0]
    /\ count = [w \in Workers |-> 0]
    /\ stats = [w \in Workers |-> InitStats]
    /\ job = [w \in Workers |-> None]
    /\ listing = [w \in Workers |-> None]
    /\ existing = [w \in Workers |-> FALSE]
    /\ found = [w \in Workers |-> None]
    /\ source = [w \in Workers |-> "jobicy"]
    /\ last = [w \in Workers |-> [tally |-> "", stage |-> ""]]

\* A harness that is not in use holds no calls
QualIdle == qjob = None /\ qres = None

NormIdle == ndetails = <<>> /\ nresults = <<>>

FpIdle == fargs = <<>> /\ fres = <<>>

NoCalls == [made |-> 0, last |-> <<>>]

StoreIdle == dcalls = NoCalls

FetchIdle == fetch = None

\* The clock advances
Tick ==
    /\ now < MaxClock
    /\ now' = now + 1
    /\ UNCHANGED <<jobs, nextId, storeUp, pc, idx, count, stats, job, listing,
                   existing, found, source, max_details, last, crawl_log, exc, harnessVars>>

\* The store starts or stops failing
StoreFlip ==
    /\ storeUp' = ~storeUp
    /\ UNCHANGED <<jobs, nextId, now, pc, idx, count, stats, job, listing, existing,
                   found, source, max_details, last, crawl_log, exc, harnessVars>>

\* run_source is called: log_crawl (main.py:51-52), outside the try
Start(w) ==
    /\ pc[w] = "init"
    /\ \E a \in Sources :
         /\ source' = [source EXCEPT ![w] = a]
         /\ crawl_log' = [crawl_log EXCEPT ![w] =
                IF storeUp THEN Some(log_crawl(a, "full")) ELSE @]
    /\ pc' = [pc EXCEPT ![w] = IF storeUp THEN "listings" ELSE "raised"]
    /\ UNCHANGED <<jobs, nextId, now, storeUp, idx, count, stats, job, listing,
                   existing, found, max_details, last, exc, harnessVars>>

\* Stage A (main.py:57-68): crawl_listings raises an exception with some
\* str(e), or returns n listings
CrawlListings(w) ==
    /\ pc[w] = "listings"
    /\ \/ /\ pc' = [pc EXCEPT ![w] = "fatal"]
          /\ \E m \in ExceptionTexts : exc' = [exc EXCEPT ![w] = Some(m)]
          /\ UNCHANGED <<stats, count>>
       \/ \E n \in 0..(max_details[w] + ExtraListings) :
            /\ stats' = [stats EXCEPT ![w].listings_found = n]
            /\ count' = [count EXCEPT ![w] = Min(n, max_details[w])]
            /\ pc' = [pc EXCEPT ![w] = IF n = 0 THEN "nolistings"
                                       ELSE "detail"]
            /\ exc' = exc
    /\ UNCHANGED <<jobs, nextId, now, storeUp, idx, job, listing, existing,
                   found, source, max_details, last, crawl_log, harnessVars>>

\* if not listings: finish_crawl(conn, crawl_id, error_message="No listings
\* found"); return stats (main.py:61-64); an exception of finish_crawl is
\* sqlite3's, with its text
NoListings(w) ==
    /\ pc[w] = "nolistings"
    /\ IF storeUp
       THEN /\ crawl_log' = [crawl_log EXCEPT ![w] =
                   Some(finish_crawl(@[1], 0, 0, 0, 0, Some(NoListingsFound)))]
            /\ pc' = [pc EXCEPT ![w] = "done"]
            /\ exc' = exc
       ELSE /\ pc' = [pc EXCEPT ![w] = "fatal"]
            /\ exc' = [exc EXCEPT ![w] = Some(StoreErrorText)]
            /\ crawl_log' = crawl_log
    /\ UNCHANGED <<jobs, nextId, now, storeUp, idx, count, stats, job, listing,
                   existing, found, source, max_details, last, harnessVars>>

\* crawl_detail, normalize_job, passes_quality (main.py:72-87)
CrawlDetail(w) ==
    /\ pc[w] = "detail"
    /\ \E o \in ListingOutcomes[source[w], now] :
         IF o.kind \in {"raise", "none"}
         THEN Finish(w, on_listing_error(stats[w], idx[w], count[w]))
         ELSE LET st == Bump(stats[w], "details_fetched")
              IN  IF o.kind = "normalize_raises"
                  THEN Finish(w, on_listing_error(st, idx[w], count[w]))
                  ELSE IF ~o.passes
                  THEN Finish(w, on_quality_reject(st, idx[w], count[w]))
                  ELSE /\ stats' = [stats EXCEPT ![w] = st]
                       /\ job' = [job EXCEPT ![w] = o.job_data]
                       /\ listing' = [listing EXCEPT ![w] =
                                          Some(o.listing)]
                       /\ pc' = [pc EXCEPT ![w] = "dedupe"]
                       /\ UNCHANGED <<idx, existing, found, last>>
    /\ UNCHANGED <<jobs, nextId, now, storeUp, count, source, max_details,
                   crawl_log, exc, harnessVars>>

\* dup = check_duplicate(conn, job_data) (main.py:89-93)
Dedupe(w) ==
    /\ pc[w] = "dedupe"
    /\ LET res == check_duplicate(jobs, storeUp, job[w][1])
       IN  IF res.raised
           THEN /\ Finish(w, on_listing_error(stats[w], idx[w], count[w]))
                /\ jobs' = jobs
           ELSE IF res.dup # None
           THEN /\ Finish(w, on_duplicate(stats[w], idx[w], count[w]))
                /\ jobs' = rows_after_duplicate(jobs, job[w][1])
           ELSE /\ pc' = [pc EXCEPT ![w] = "existing"]
                /\ UNCHANGED <<jobs, stats, idx, job, listing, existing, found,
                               last>>
    /\ UNCHANGED <<nextId, now, storeUp, count, source, max_details,
                   crawl_log, exc, harnessVars>>

\* existing = SELECT id FROM jobs WHERE source = ? AND source_job_id = ?
\* with (adapter.name, listing.source_job_id) (main.py:95-99)
Existing(w) ==
    /\ pc[w] = "existing"
    /\ IF ~storeUp
       THEN Finish(w, on_listing_error(stats[w], idx[w], count[w]))
       ELSE /\ existing' = [existing EXCEPT ![w] =
                   RowsWithKey(jobs, source[w], listing[w][1]) # {}]
            /\ pc' = [pc EXCEPT ![w] = "upsert_select"]
            /\ UNCHANGED <<stats, idx, job, listing, found, last>>
    /\ UNCHANGED <<jobs, nextId, now, storeUp, count, source, max_details,
                   crawl_log, exc, harnessVars>>

\* upsert_job's SELECT (db.py:112-118)
UpsertSelect(w) ==
    /\ pc[w] = "upsert_select"
    /\ IF ~storeUp
       THEN Finish(w, on_listing_error(stats[w], idx[w], count[w]))
       ELSE LET m == RowsWithKey(jobs, job[w][1].source,
                                 job[w][1].source_job_id)
            IN  /\ found' = [found EXCEPT ![w] =
                       IF m = {} THEN None
                       ELSE Some((CHOOSE r \in m : TRUE).id)]
                /\ pc' = [pc EXCEPT ![w] = "upsert_write"]
                /\ UNCHANGED <<stats, idx, job, listing, existing, last>>
    /\ UNCHANGED <<jobs, nextId, now, storeUp, count, source, max_details,
                   crawl_log, exc, harnessVars>>

\* upsert_job's UPDATE or INSERT, then the tally (db.py:120-161,
\* main.py:102-107)
UpsertWrite(w) ==
    /\ pc[w] = "upsert_write"
    /\ IF ~storeUp
       THEN /\ Finish(w, on_listing_error(stats[w], idx[w], count[w]))
            /\ UNCHANGED <<jobs, nextId>>
       ELSE LET res == upsert_write(jobs, job[w][1], found[w], nextId, now)
            IN  IF res.raised
                THEN /\ Finish(w, on_listing_error(stats[w], idx[w],
                                                   count[w]))
                     /\ UNCHANGED <<jobs, nextId>>
                ELSE /\ jobs' = res.rows
                     /\ nextId' = IF found[w] = None THEN nextId + 1
                                  ELSE nextId
                     /\ Finish(w, on_upsert_done(stats[w], existing[w],
                                                 idx[w], count[w]))
    /\ UNCHANGED <<now, storeUp, count, source, max_details,
                   crawl_log, exc, harnessVars>>

\* finish_crawl after the loop (main.py:116-123)
FinishCrawl(w) ==
    /\ pc[w] = "finish"
    /\ IF storeUp
       THEN /\ crawl_log' = [crawl_log EXCEPT ![w] =
                   Some(finish_crawl(@[1], stats[w].listings_found,
                                     stats[w].jobs_new, stats[w].jobs_updated,
                                     stats[w].errors, None))]
            /\ pc' = [pc EXCEPT ![w] = "done"]
            /\ exc' = exc
       ELSE /\ pc' = [pc EXCEPT ![w] = "fatal"]
            /\ exc' = [exc EXCEPT ![w] = Some(StoreErrorText)]
            /\ crawl_log' = crawl_log
    /\ UNCHANGED <<jobs, nextId, now, storeUp, idx, count, stats, job, listing,
                   existing, found, source, max_details, last, harnessVars>>

\* except Exception as e (main.py:125-128): finish_crawl(conn, crawl_id,
\* error_message=str(e)), then one more error is counted; if finish_crawl
\* raises again, run_source raises
Fatal(w) ==
    /\ pc[w] = "fatal"
    /\ IF storeUp
       THEN /\ crawl_log' = [crawl_log EXCEPT ![w] =
                   Some(finish_crawl(@[1], 0, 0, 0, 0, exc[w]))]
            /\ stats' = [stats EXCEPT ![w] = Bump(@, "errors")]
            /\ pc' = [pc EXCEPT ![w] = "failed"]
       ELSE /\ pc' = [pc EXCEPT ![w] = "raised"]
            /\ UNCHANGED <<stats, crawl_log>>
    /\ UNCHANGED <<jobs, nextId, now, storeUp, idx, count, job, listing,
                   existing, found, source, max_details, last, exc,
                   harnessVars>>

Step(w) ==
    \/ Start(w)
    \/ CrawlListings(w)
    \/ NoListings(w)
    \/ CrawlDetail(w)
    \/ Dedupe(w)
    \/ Existing(w)
    \/ UpsertSelect(w)
    \/ UpsertWrite(w)
    \/ FinishCrawl(w)
    \/ Fatal(w)

Next ==
    \/ Tick
    \/ StoreFlip
    \/ \E w \in Workers : Step(w)

\* Two workers run run_source side by side on one store
Init ==
    /\ InitPipeline(ParDetails)
    /\ QualIdle
    /\ NormIdle
    /\ FpIdle
    /\ StoreIdle
    /\ FetchIdle

Spec == Init /\ [][Next]_vars

\* One worker alone: every listing is finished before the next one starts
InitSeq ==
    /\ InitPipeline(SeqDetails)
    /\ QualIdle
    /\ NormIdle
    /\ FpIdle
    /\ StoreIdle
    /\ FetchIdle

NextSeq ==
    \/ Tick
    \/ StoreFlip
    \/ Step(1)

SpecSeq == InitSeq /\ [][NextSeq]_vars

----------------------------------------------------------------------------
(* The quality gate on its own: passes_quality applied to job_data records *)

QTitles ==
    { <<>>,
      <<" ","D","e","v","s"," ">>,
      <<"a","s","d","f">>,
      <<"N","u","r","s","e">>,
      <<" ","N","u","r","s","e","\t">>,
      <<"T","E","S","T"," ","J","O","B">>,
      <<"A"," ","T","e","s","t"," ","P","o","s","t","i","n","g">>,
      <<"D","o"," ","N","O","T"," ","a","p","p","l","y","!">>,
      <<"P","l","a","c","e","H","o","l","d","e","r">>,
      <<"x","L","O","R","E","M"," ","i","p","s","u","m">>,
      <<"Q","A"," ","a","S","d","F"," ","d","e","v">>,
      <<"t","e","s","t"," "," ","j","o","b">>,
      <<"t","e","s","t","j","o","b","s">> }

QCompanies == { <<>>, <<" ">>, <<"A","c","m","e">> }

QDescriptions ==
    { <<>>,
      Rep("d", MinDescLen - 1),
      Rep("d", MinDescLen),
      <<" ">> \o Rep("d", MinDescLen - 1) \o <<"\n">>,
      <<" ">> \o Rep("d", MinDescLen) }

QUrls == { <<>>, <<"u">> }

QualityJobs ==
    { [title |-> t, company_name |-> c, description_text |-> d,
       apply_url_final |-> f, apply_url_original |-> o,
       canonical_url |-> u] :
          t \in QTitles, c \in QCompanies, d \in QDescriptions,
          f \in QUrls \cup {<<" ">>}, o \in QUrls, u \in QUrls }

InitQuality ==
    /\ InitPipeline(ParDetails)
    /\ qjob \in {Some(j) : j \in QualityJobs}
    /\ qres = None
    /\ NormIdle
    /\ FpIdle
    /\ StoreIdle
    /\ FetchIdle

\* passes, reason = passes_quality(job_data) (main.py:83)
QualityCheck ==
    /\ qres = None
    /\ qres' = Some(passes_quality(qjob[1]))
    /\ UNCHANGED <<qjob, pipeVars, normVars, fpVars, storeVars, fetchVars>>

NextQuality == QualityCheck

SpecQuality == InitQuality /\ [][NextQuality]_vars

----------------------------------------------------------------------------
(* The normalizer on its own: normalize_job called on a JobDetail, up to   *)
(* NormCalls times, while the clock runs                                   *)

NormCalls == 2

NTitles ==
    { <<>>,
      <<" "," ","S","r","."," "," ","B","a","c","k","e","n","d"," ","E","n","g","i","n","e","e","r"," ","[","R","e","m","o","t","e","]"," "," ">>,
      <<"S","e","n","i","o","r"," ","M","a","n","a","g","e","r"," ","o","f"," ","E","n","g","i","n","e","e","r","i","n","g">>,
      <<"[","H","o","t","]"," ","D","e","v"," ","[","E","U","]"," ","i","n"," ","[","U","S","]">>,
      <<"D","e","v"," ","[","a","]","[","b","]">>,
      <<"[","F","e","a","t","u","r","e","d","]"," ","J","u","n","i","o","r","	","D","e","v">>,
      <<"H","e","a","d"," ","o","f"," ","I","n","t","e","r","n","a","l"," ","T","o","o","l","s">>,
      <<"M","a","r","k","e","t","i","n","g"," ","M","a","n","a","g","e","r">>,
      <<"D","i","r","e","c","t","o","r">>,
      <<"N","u","r","s","e">>,
      <<"M","I","D","-","L","E","V","E","L"," ","A","n","a","l","y","s","t">>,
      <<"L","e","a","d"," ","M","g","r">>,
      PyInt(<<"7">>),
      PyList(<<"a">>) }

NPosted ==
    { NoDate,
      DateStr(<<>>),
      DateStr(<<"g","a","r","b","a","g","e">>),
      DateStr(PostedIso),
      DateStr(<<" ","2","0","2","3","-","1","1","-","1","4">>),
      DateStr(<<"1","1","/","1","4","/","2","0","2","3">>),
      DateStr(<<"1","4","/","1","1","/","2","0","2","3">>),
      DateStr(<<"1","7","0","0","0","0","0","0","0","0">>),
      DateNum(0, 0),
      DateNum(0, 1),
      DateNum(-1, 999),
      DateNum(1700000, 0),
      DateNum(1700000000, 0),
      DateNum(MsThresholdKs - 1, 999),
      DateNum(MsThresholdKs, 0),
      DateNum(MsThresholdKs, 1),
      DateNum(-1700000000, 0),
      DateNum(253402300, 799),
      DateNum(253402300, 800),
      DateNum(-62135597, 200),
      DateNum(-62135597, 199),
      DateVal("huge", <<>>, 1, 0),
      DateVal("huge", <<>>, -1, 0),
      DateVal("inf", <<>>, 1, 0),
      DateVal("inf", <<>>, -1, 0),
      DateVal("nan", <<>>, 0, 0) }

\* experience_level as the adapters hand it over: absent, or the source's
\* own word (jobicy.py:144, himalayas.py:135)
NLevels == { <<>>, Senior, <<"A","n","y">> }

Freelance == <<"F","r","e","e","l","a","n","c","e">>

Developer == <<"d","e","v","e","l","o","p","e","r">>

\* employment_type and category: absent, the source's word, or that word
\* mapped by the adapter's helper
NVocabulary ==
    { [employment_type |-> <<>>, category |-> <<>>],
      [employment_type |-> Freelance, category |-> Developer],
      [employment_type |-> normalize_employment_type(Freelance),
       category |-> normalize_category(Developer)] }

NormDetail(t, p, l, v) ==
    [Detail("jobicy", "1", [title |-> t,
                            description_text |-> Rep("d", MinDescLen)])
        EXCEPT !.posted_at = p, !.experience_level = l,
               !.employment_type = v.employment_type,
               !.category = v.category]

\* Every title with every level, every posted_at and every vocabulary
NormDetails ==
    { NormDetail(t, DateStr(PostedIso), l, v) :
        t \in NTitles, l \in NLevels, v \in NVocabulary }
    \cup { NormDetail(t, p, <<>>, v) :
        t \in {<<>>, Txt5a}, p \in NPosted, v \in NVocabulary }

InitNorm ==
    /\ InitPipeline(ParDetails)
    /\ QualIdle
    /\ FpIdle
    /\ StoreIdle
    /\ FetchIdle
    /\ ndetails \in {<<d>> : d \in NormDetails}
    /\ nresults = <<>>

\* job_data = normalize_job(detail) (main.py:80): it returns, or an
\* exception leaves it
NormalizeCall ==
    /\ Len(nresults) < NormCalls
    /\ nresults' = Append(nresults,
           IF normalize_raises(ndetails[1])
           THEN [raised |-> TRUE, clock |-> now, data |-> None]
           ELSE [raised |-> FALSE, clock |-> now,
                 data |-> Some(normalize_job(ndetails[1], now))])
    /\ UNCHANGED <<ndetails, pipeVars, qualVars, fpVars, storeVars,
                   fetchVars>>

NextNorm == Tick \/ NormalizeCall

SpecNorm == InitNorm /\ [][NextNorm]_vars

----------------------------------------------------------------------------
(* The fingerprint on its own: _generate_fingerprint called on each of two *)
(* argument triples                                                        *)

FTitles == { <<"D","e","v">>, <<" ","D","E","V","\t">> }

FCompanies == { <<"A","c","m","e">>, <<"A","C","M","E"," ">> }

\* A description one character longer than the window, and its variants
LongDesc == Rep("b", DescWindow - 1) \o <<"x", "y">>

LongDescTail == Rep("b", DescWindow - 1) \o <<"x", "z", "z">>

LongDescGap1 == <<"b", " ">> \o Rep("b", DescWindow - 2) \o <<"x", "y">>

LongDescGap2 == <<"b", " ", " ">> \o Rep("b", DescWindow - 2) \o <<"x", "y">>

FDescriptions ==
    { <<>>, <<" ">>, <<"A","b","c">>, <<" ","a","B","C"," ">>,
      LongDesc, <<" ">> \o LongDesc, LongDescTail, LongDescGap1, LongDescGap2 }

\* Titles and companies that hold the "|" of the joined string
BarArgs ==
    { [title |-> <<"a","|","b">>, company |-> <<"c">>, description |-> <<>>],
      [title |-> <<"a">>, company |-> <<"b","|","c">>, description |-> <<>>],
      [title |-> <<"a">>, company |-> <<"b">>, description |-> <<"c">>] }

FpArgs ==
    { [title |-> t, company |-> c, description |-> d] :
        t \in FTitles, c \in FCompanies, d \in FDescriptions }
    \cup BarArgs

InitFp ==
    /\ InitPipeline(ParDetails)
    /\ QualIdle
    /\ NormIdle
    /\ StoreIdle
    /\ FetchIdle
    /\ fargs \in {<<a, b>> : a \in FpArgs, b \in FpArgs}
    /\ fres = <<>>

\* _generate_fingerprint(title, company, description) (normalizer.py:49-51)
FingerprintCall ==
    /\ Len(fres) < Len(fargs)
    /\ LET a == fargs[Len(fres) + 1]
       IN  fres' = Append(fres, generate_fingerprint(a.title, a.company,
                                                     a.description))
    /\ UNCHANGED <<fargs, pipeVars, qualVars, normVars, storeVars,
                   fetchVars>>

NextFp == FingerprintCall

SpecFp == InitFp /\ [][NextFp]_vars

----------------------------------------------------------------------------
(* The store on its own: upsert_job and check_duplicate called on one      *)
(* connection, up to StoreCalls times, while the clock runs                *)

StoreCalls == 3

WeWorkRemotely == "weworkremotely"

\* The id a caller may put into job_data; gen_id never returns it
GivenId == 0

\* The text of the page's salary element (weworkremotely.py:146-148)
SalaryRange == <<"$","1","0","0","k"," ","-"," ","$","1","5","0","k">>

SalaryReversed == <<"$","1","5","0",",","0","0","0"," ","-"," ",
                    "$","1","0","0",",","0","0","0">>

SalaryFrom == <<"$","9","0","k">>

\* A JobDetail of an adapter that reads the salary with extract_salary;
\* every posting applies at the employer's one careers page
StoreDetail(sid, c, text) ==
    With(extract_salary(text), LAMBDA sal :
        [Detail(WeWorkRemotely, sid, c) EXCEPT
            !.salary_min = sal.salary_min,
            !.salary_max = sal.salary_max,
            !.salary_text = text,
            !.apply_url_final = Url])

\* What a call may be given: the title, the salary text and the key of the
\* detail behind job_data, the "id" key of job_data if it has one, and its
\* status
StoreRequest(sid, title, text, id, st) ==
    [sid |-> sid, title |-> title, text |-> text, id |-> id, status |-> st]

StoreRequests ==
    { StoreRequest(sid, t, <<>>, None, "active") :
          sid \in JobIds, t \in {Txt5a, Txt5b} }
    \cup { StoreRequest("1", Txt5a, text, None, "active") :
          text \in {SalaryRange, SalaryReversed, SalaryFrom} }
    \cup { StoreRequest(sid, Txt5a, <<>>, Some(GivenId), "active") :
          sid \in JobIds }
    \cup { StoreRequest("1", Txt5a, <<>>, None, "stale"),
           StoreRequest("1", Txt5b, <<>>, None, "removed") }

\* job_data as the caller builds it, with the clock reading t
StoreJob ==
    [q \in StoreRequests, t \in 0..MaxClock |->
        [normalize_job(
             StoreDetail(q.sid, [title |-> q.title,
                                 description_text |-> Rep("d", MinDescLen)],
                         q.text), t)
            EXCEPT !.status = q.status]]

InitStore ==
    /\ InitPipeline(ParDetails)
    /\ QualIdle
    /\ NormIdle
    /\ FpIdle
    /\ FetchIdle
    /\ dcalls = NoCalls

\* upsert_job(conn, job_data)
UpsertJob ==
    /\ dcalls.made < StoreCalls
    /\ \E q \in StoreRequests :
         LET res == upsert_job(jobs, StoreJob[q, now], q.id, nextId, now)
         IN  /\ jobs' = res.rows
             /\ nextId' = IF q.id = None THEN nextId + 1 ELSE nextId
             /\ dcalls' = [made |-> dcalls.made + 1,
                            last |-> <<[op |-> "upsert_job", request |-> q,
                                        clock |-> now,
                                        before |-> RowsWithKey(
                                            jobs, WeWorkRemotely, q.sid),
                                        raised |-> res.raised,
                                        updated |-> res.updated,
                                        result |-> res.id]>>]
    /\ UNCHANGED <<now, storeUp, pc, idx, count, stats, job, listing, existing,
                   found, source, max_details, last, crawl_log, exc,
                   qualVars, normVars, fpVars, fetchVars>>

\* check_duplicate(conn, job_data)
CheckDuplicate ==
    /\ dcalls.made < StoreCalls
    /\ \E q \in {x \in StoreRequests : /\ x.id = None
                                        /\ x.status = "active"
                                        /\ x.text = <<>>
                                        /\ x.sid = "1"} :
         LET res == check_duplicate(jobs, storeUp, StoreJob[q, now])
         IN  dcalls' = [made |-> dcalls.made + 1,
                        last |-> <<[op |-> "check_duplicate", request |-> q,
                                    clock |-> now,
                                    before |-> RowsWithKey(
                                        jobs, WeWorkRemotely, q.sid),
                                    raised |-> res.raised,
                                    updated |-> FALSE,
                                    result |-> res.dup]>>]
    /\ UNCHANGED <<pipeVars, qualVars, normVars, fpVars, fetchVars>>

NextStore == Tick \/ UpsertJob \/ CheckDuplicate

SpecStore == InitStore /\ [][NextStore]_vars

----------------------------------------------------------------------------
(* adapters/base.py: one call of BaseAdapter.fetch *)

MAX_RETRIES == 3

RETRY_BACKOFF == 2

RATE_LIMIT_SECONDS == 2

RECURSIVE Power(_, _)
Power(b, n) == IF n = 0 THEN 1 ELSE b * Power(b, n - 1)

\* What one pass of the loop body may meet (base.py:109-123): a response
\* that raise_for_status accepts; one it rejects (HTTPError, 403 included);
\* RequestException out of session.get; another exception out of it; and,
\* for an adapter with USE_HEADLESS, a 403 after which fetch_html returns
\* the page, returns nothing, or raises
AttemptOutcomes(use_headless) ==
    {"ok", "status_error", "request_exception", "other_exception"}
    \cup (IF use_headless
          THEN {"forbidden_html", "forbidden_no_html", "forbidden_raises"}
          ELSE {})

\* The outcomes that end in except requests.RequestException (base.py:124)
RequestErrors == {"status_error", "request_exception", "forbidden_no_html"}

\* The outcomes that return a response (base.py:121, 123)
Successes == {"ok", "forbidden_html"}

\* Mutant: the handler sleeps after the last attempt as well
after_request_error_always_sleeps(f) ==
    [f EXCEPT !.sleeps = Append(@, Power(RETRY_BACKOFF, f.attempt)),
              !.attempt = @ + 1,
              !.pc = IF f.attempt + 1 < MAX_RETRIES THEN "attempt"
                     ELSE "returned"]

\* except requests.RequestException (base.py:124-131), then the next pass
\* of for attempt in range(MAX_RETRIES) or, after the last one, return None
after_request_error(f) ==
    [f EXCEPT !.sleeps = IF f.attempt < MAX_RETRIES - 1
                         THEN Append(@, Power(RETRY_BACKOFF, f.attempt))
                         ELSE @,
              !.attempt = @ + 1,
              !.pc = IF f.attempt + 1 < MAX_RETRIES THEN "attempt"
                     ELSE "returned"]

\* fetch is called on an adapter, elapsed seconds after its last request
InitFetch ==
    /\ InitPipeline(ParDetails)
    /\ QualIdle
    /\ NormIdle
    /\ FpIdle
    /\ StoreIdle
    /\ \E h \in BOOLEAN, e \in 0..(RATE_LIMIT_SECONDS + 1) :
         fetch = Some([pc |-> "rate_limit", use_headless |-> h,
                       elapsed |-> e, rate_sleep |-> 0, attempt |-> 0,
                       outcomes |-> <<>>, sleeps |-> <<>>,
                       result |-> None])

\* self._rate_limit() (base.py:98-102, 106)
RateLimit ==
    /\ fetch[1].pc = "rate_limit"
    /\ fetch' = Some([fetch[1] EXCEPT
           !.rate_sleep = IF fetch[1].elapsed < RATE_LIMIT_SECONDS
                          THEN RATE_LIMIT_SECONDS - fetch[1].elapsed ELSE 0,
           !.pc = "attempt"])
    /\ UNCHANGED <<pipeVars, qualVars, normVars, fpVars, storeVars>>

\* One pass of the loop (base.py:107-131)
Attempt ==
    /\ fetch[1].pc = "attempt"
    /\ \E o \in AttemptOutcomes(fetch[1].use_headless) :
         LET f == [fetch[1] EXCEPT !.outcomes = Append(@, o)]
         IN  fetch' = Some(
                 IF o \in Successes
                 THEN [f EXCEPT !.pc = "returned", !.result = Some(o)]
                 ELSE IF o \in RequestErrors
                 THEN after_request_error(f)
                 ELSE [f EXCEPT !.pc = "raised"])
    /\ UNCHANGED <<pipeVars, qualVars, normVars, fpVars, storeVars>>

NextFetch == RateLimit \/ Attempt

SpecFetch == InitFetch /\ [][NextFetch]_vars

\* The loop keeps running: each of its statements returns or raises
FairSeq == SpecSeq /\ WF_vars(Step(1))

----------------------------------------------------------------------------
(* Properties *)

JobKeyRows(rows, j) == RowsWithKey(rows, j.source, j.source_job_id)

SameContent(r, j) ==
    /\ r.title = j.title
    /\ r.company_name = j.company_name
    /\ r.description_text = j.description_text
    /\ r.salary_min = j.salary_min
    /\ r.salary_max = j.salary_max
    /\ r.apply_url_original = j.apply_url_original
    /\ r.apply_url_final = j.apply_url_final
    /\ r.canonical_url = j.canonical_url
    /\ r.status = j.status
    /\ r.fingerprint_hash = j.fingerprint_hash

ActiveWith(rows, fp) ==
    {r \in rows : r.status = "active" /\ r.fingerprint_hash = fp}

OutcomeSum(st) ==
    st.jobs_new + st.jobs_updated + st.duplicates + st.quality_rejected
    + st.errors

\* C1: when a quality-passing listing is processed without error for a key
\* whose stored row already has identical content, and the clock has moved
\* on since that row was written, the table then holds exactly one row for
\* the key, with created_at unchanged and updated_at advanced.
C1_IdempotentUpsert ==
    [][\A w \in Workers :
        (job[w] # None /\ idx'[w] = idx[w] + 1 /\ last'[w].tally # "errors")
        => \A r \in JobKeyRows(jobs, job[w][1]) :
             (SameContent(r, job[w][1]) /\ r.updated_at < now)
             => /\ Cardinality(JobKeyRows(jobs', job[w][1])) = 1
                /\ \A r2 \in JobKeyRows(jobs', job[w][1]) :
                     /\ r2.created_at = r.created_at
                     /\ r2.updated_at > r.updated_at]_vars

\* C2: the jobs table never holds two rows with the same
\* (source, source_job_id), however the workers' upserts interleave.
C2_KeyUnique ==
    \A r1, r2 \in jobs : KeyOf(r1) = KeyOf(r2) => r1 = r2

\* C2 witness: an upsert for a key already present has updated its row
C2_Witness ==
    /\ Cardinality(jobs) = 1
    /\ \E r \in jobs : r.updated_at > r.created_at
    /\ \E w \in Workers : last[w] = [tally |-> "jobs_updated",
                                     stage |-> "upsert_write"]

OwnRowOnly(w) ==
    LET own == JobKeyRows(jobs, job[w][1])
    IN  /\ own # {}
        /\ ActiveWith(jobs, job[w][1].fingerprint_hash) = own

\* C3: when the row stored under the job's own key is the only active row
\* with its fingerprint, the duplicate check reports no duplicate: the
\* listing goes on to the upsert and is not tallied as a duplicate.
C3_OwnRowExcluded ==
    [][\A w \in Workers :
        (pc[w] = "dedupe" /\ storeUp /\ OwnRowOnly(w) /\ pc'[w] # "dedupe")
        => /\ pc'[w] = "existing"
           /\ stats'[w].duplicates = stats[w].duplicates]_vars

\* C4: with one worker, no two active rows share a fingerprint_hash.
C4_OneActivePerFingerprint ==
    \A r1, r2 \in jobs :
        (/\ r1.status = "active"
         /\ r2.status = "active"
         /\ r1.fingerprint_hash = r2.fingerprint_hash) => r1 = r2

\* C4 witness: two rows are stored and an update has changed the content
\* (and so the fingerprint) of one of them
C4_Witness ==
    /\ Cardinality(jobs) = 2
    /\ stats[1].jobs_updated = 1
    /\ \E r \in jobs : r.updated_at > r.created_at

C6_LookupFailureIsError ==
    [][\A w \in Workers :
        (pc[w] = "dedupe" /\ ~storeUp /\ pc'[w] # "dedupe")
        => /\ check_duplicate(jobs, storeUp, job[w][1]).raised
           /\ stats'[w].errors = stats[w].errors + 1
           /\ stats'[w].jobs_new = stats[w].jobs_new
           /\ stats'[w].jobs_updated = stats[w].jobs_updated
           /\ idx'[w] = idx[w] + 1
           /\ pc'[w] \in {"detail", "finish"}
           /\ jobs' = jobs]_vars

\* C6 witness: a listing has been tallied as an error at the duplicate check
C6_Witness ==
    \E w \in Workers : last[w] = [tally |-> "errors", stage |-> "dedupe"]

\* C7: once the detail loop runs, every one of the first
\* min(len(listings), max_details) listings is eventually processed.
C7_BatchCompletes ==
    \A w \in {1} :
        [](pc[w] = "detail"
           => <>(idx[w] = Min(stats[w].listings_found, max_details[w])))

\* C7 witness: the whole batch is done although earlier listings failed
C7_Witness ==
    /\ pc[1] = "done"
    /\ idx[1] = SeqDetails
    /\ stats[1].errors >= 2
    /\ last[1].tally = "jobs_new"

\* C8 (as stated): after k listings the five outcome counters sum to k.
C8_SumIsProcessed ==
    \A w \in Workers : OutcomeSum(stats[w]) = idx[w]

\* C8 (amended): the five outcome counters sum to the number of listings
\* processed, plus one when the run ended in run_source's outer handler.
C8_SumIsProcessedPlusFatal ==
    \A w \in Workers :
        OutcomeSum(stats[w]) = idx[w] + (IF pc[w] = "failed" THEN 1 ELSE 0)

\* C8 witness: listings of every outcome were processed, then the run failed
C8_Witness ==
    /\ pc[1] = "failed"
    /\ idx[1] = SeqDetails
    /\ stats[1].jobs_new >= 1
    /\ stats[1].jobs_updated >= 1

OthersUnchanged(w, c) ==
    \A d \in Counters :
        stats'[w][d] = stats[w][d] + (IF d = c THEN 1 ELSE 0)

\* C9: a listing rejected by the quality gate or found to be a duplicate
\* leaves the jobs table as it is; only its own counter changes.
C9_RejectedLeavesTable ==
    [][\A w \in Workers :
        /\ (/\ pc[w] = "dedupe"
            /\ storeUp
            /\ ActiveWith(jobs, job[w][1].fingerprint_hash) # {}
            /\ pc'[w] # "dedupe")
           => (jobs' = jobs /\ OthersUnchanged(w, "duplicates"))
        /\ (/\ pc[w] = "detail"
            /\ stats'[w].details_fetched = stats[w].details_fetched + 1
            /\ pc'[w] # "dedupe"
            /\ last'[w].tally = "quality_rejected")
           => (jobs' = jobs /\ OthersUnchanged(w, "quality_rejected"))]_vars

\* C9 witness: one listing was rejected by the quality gate and another was
\* dropped as a duplicate, with the single stored row still in the table
C9_Witness ==
    /\ last[1] = [tally |-> "duplicates", stage |-> "dedupe"]
    /\ stats[1].quality_rejected >= 1
    /\ Cardinality(jobs) = 1
    /\ \E r \in jobs : r.source_job_id = "1"

\* The five rules as the claim states them
RuleTitle(j) == Len(Strip(j.title)) >= 5

RuleCompany(j) == Len(Strip(j.company_name)) >= 1

RuleDescription(j) == Len(Strip(j.description_text)) >= 50

RuleUrl(j) ==
    ~(j.apply_url_final = <<>> /\ j.apply_url_original = <<>>
      /\ j.canonical_url = <<>>)

MatchesIgnoringCase(s, token) ==
    \E i \in 0..(Len(s) - Len(token)) :
        \A k \in 1..Len(token) : LowerChar(s[i + k]) = LowerChar(token[k])

RuleSpam(j) ==
    ~\E token \in spam_indicators : MatchesIgnoringCase(j.title, token)

FirstFailure(j) ==
    IF ~RuleTitle(j) THEN "Missing or too-short title"
    ELSE IF ~RuleCompany(j) THEN "Missing company name"
    ELSE IF ~RuleDescription(j) THEN "Description too short"
    ELSE IF ~RuleUrl(j) THEN "Missing apply URL and canonical URL"
    ELSE IF ~RuleSpam(j) THEN "Spam-like title"
    ELSE "OK"

\* C10: passes_quality returns the reason of the first failing rule in the
\* order title, company, description, URL, spam; the URL rule fails only
\* when all three URLs are empty; the spam rule matches the six tokens as
\* case-insensitive substrings; (TRUE, "OK") exactly when all rules pass.
C10_FirstFailingRule ==
    qres # None =>
        /\ qres[1].reason.msg = FirstFailure(qjob[1])
        /\ qres[1].ok = (FirstFailure(qjob[1]) = "OK")
        /\ qres[1].ok = (/\ RuleTitle(qjob[1])
                         /\ RuleCompany(qjob[1])
                         /\ RuleDescription(qjob[1])
                         /\ RuleUrl(qjob[1])
                         /\ RuleSpam(qjob[1]))
        /\ Cardinality(spam_indicators) = 6

\* C10 witness: a job failing the description, URL and spam rules at once is
\* rejected for its description
C10_Witness ==
    /\ qres # None
    /\ RuleTitle(qjob[1])
    /\ RuleCompany(qjob[1])
    /\ ~RuleDescription(qjob[1])
    /\ ~RuleUrl(qjob[1])
    /\ ~RuleSpam(qjob[1])
    /\ qres[1] = Verdict(FALSE, Reason("Description too short",
                                       MinDescLen - 1, <<>>))

\* Number of characters between the first and the last character that is
\* not white space, both included
TrimLen(s) ==
    Cardinality({i \in 1..Len(s) :
                    /\ \E a \in 1..i : ~IsSpace(s[a])
                    /\ \E b \in i..Len(s) : ~IsSpace(s[b])})

OthersValid(j) == RuleCompany(j) /\ RuleUrl(j) /\ RuleSpam(j)

\* C11: with company, URLs and spam rule valid, passes_quality accepts
\* exactly when the trimmed title has at least 5 characters and the trimmed
\* description at least 50; surrounding white space counts toward neither,
\* and a rejected description's reason carries its trimmed length.
C11_LengthBoundaries ==
    (qres # None /\ OthersValid(qjob[1])) =>
        LET t == TrimLen(qjob[1].title)
            d == TrimLen(qjob[1].description_text)
        IN  /\ qres[1].ok = (t >= 5 /\ d >= 50)
            /\ (t >= 5 /\ d < 50) =>
                   qres[1].reason = Reason("Description too short", d, <<>>)
            /\ t < 5 => qres[1].reason.msg = "Missing or too-short title"

\* C11 witness: a description of 49 characters wrapped in white space (51
\* characters in all) was rejected with N = 49 under a 5-character title
C11_Witness ==
    /\ qres # None
    /\ OthersValid(qjob[1])
    /\ Len(qjob[1].title) = 5
    /\ Len(qjob[1].description_text) = 51
    /\ TrimLen(qjob[1].description_text) = 49
    /\ qres[1] = Verdict(FALSE, Reason("Description too short", 49, <<>>))

\* C12: normalize_job is deterministic: two calls on an identical JobDetail
\* return identical values in every field, posted_at and fingerprint_hash
\* included, whatever posted_at holds and whatever the clock reads at the
\* two calls.
C12_Deterministic ==
    \A i, k \in 1..Len(nresults) :
        (~nresults[i].raised /\ ~nresults[k].raised) =>
            \A f \in DOMAIN nresults[i].data[1] :
                nresults[i].data[1][f] = nresults[k].data[1][f]

\* C13: normalize_job is total: for every JobDetail, absent and wrongly
\* typed fields and out-of-range numeric posted_at values included, it
\* returns a record and lets no exception reach the caller.
C13_Total ==
    \A i \in 1..Len(nresults) :
        /\ ~nresults[i].raised
        /\ nresults[i].data # None

\* Equal up to letter case and leading/trailing white space
SameModCaseTrim(x, y) ==
    /\ TrimLen(x) = TrimLen(y)
    /\ \A i \in 1..TrimLen(x) :
          LowerChar(SkipSpaces(x)[i]) = LowerChar(SkipSpaces(y)[i])

\* C14: the fingerprint is invariant to letter case and to leading and
\* trailing white space of title, company and description, also for a
\* description longer than the 500-character window and for an empty
\* against a white-space-only description.
C14_CaseTrimInvariant ==
    (Len(fres) = 2
     /\ SameModCaseTrim(fargs[1].title, fargs[2].title)
     /\ SameModCaseTrim(fargs[1].company, fargs[2].company)
     /\ SameModCaseTrim(fargs[1].description, fargs[2].description))
        => fres[1] = fres[2]

\* C15: with equal title and company, two descriptions whose white-space-
\* collapsed forms agree on their first 500 characters get the same
\* fingerprint, however they differ beyond the window or in the amount of
\* white space inside it.
C15_CollapsedWindow ==
    (Len(fres) = 2
     /\ fargs[1].title = fargs[2].title
     /\ fargs[1].company = fargs[2].company
     /\ Prefix(CollapseWs(fargs[1].description), 500)
            = Prefix(CollapseWs(fargs[2].description), 500))
        => fres[1] = fres[2]

\* The title as the claim describes it: white space collapsed and trimmed,
\* then one bracket group at the very start (with the white space after
\* it) and one bracket group at the very end (with the white space before
\* it) removed
LastIndexOf(t, c) ==
    IF \E i \in 1..Len(t) : t[i] = c
    THEN CHOOSE i \in 1..Len(t) : t[i] = c /\ \A k \in (i + 1)..Len(t) : t[k] # c
    ELSE 0

WithoutLeadingGroup(t) ==
    IF t # <<>> /\ t[1] = "[" /\ IndexOf(t, "]") > 0
    THEN SkipSpaces(SubSeq(t, IndexOf(t, "]") + 1, Len(t)))
    ELSE t

WithoutTrailingGroup(t) ==
    IF t # <<>> /\ t[Len(t)] = "]" /\ LastIndexOf(t, "[") > 0
    THEN LET head == SubSeq(t, 1, LastIndexOf(t, "[") - 1)
         IN  Tail(Strip(<<"|">> \o head))
    ELSE t

DescribedTitle(raw) ==
    WithoutTrailingGroup(WithoutLeadingGroup(Strip(CollapseWs(raw))))

\* C16: the normalized title is the raw title with white-space runs
\* collapsed and trimmed and with at most one leading and at most one
\* trailing [...] group removed; an earlier bracket group and the words
\* between two bracket groups are preserved.
C16_OnlyOuterTags ==
    \A i \in 1..Len(nresults) :
        ~nresults[i].raised =>
            nresults[i].data[1].title
                = DescribedTitle(StrOr(ndetails[1].title, <<>>))

EmploymentTypes == {FullTime, PartTime, Contract, Internship}

Categories == {e[2] : e \in CATEGORY_MAP}

\* C17: for every input the employment_type of normalize_job's output is
\* one of Full-time, Part-time, Contract, Internship and its category one
\* of the normalized categories; raw vocabulary is mapped through the
\* lookup tables and unmapped or empty values give Full-time and Other.
C17_CanonicalVocabulary ==
    \A i \in 1..Len(nresults) :
        ~nresults[i].raised =>
            /\ nresults[i].data[1].employment_type \in EmploymentTypes
            /\ nresults[i].data[1].category \in Categories

\* The five keyword sets in the order the claim gives, with their levels
LevelOrder ==
    << <<SeniorWords, Senior>>, <<JuniorWords, Junior>>, <<MidWords, Mid>>,
       <<ExecutiveWords, Executive>>, <<ManagerWords, Manager>> >>

HasCue(title, k) ==
    \E w \in LevelOrder[k][1] : MatchesIgnoringCase(title, w)

FirstCueLevel(title) ==
    IF \E k \in 1..5 : HasCue(title, k)
    THEN LevelOrder[CHOOSE k \in 1..5 :
                       HasCue(title, k) /\ \A m \in 1..(k - 1) : ~HasCue(title, m)][2]
    ELSE Mid

\* C18: when experience_level is not supplied, the output's level is that
\* of the first of the keyword sets Senior, Junior, Mid, Executive, Manager
\* with a keyword in the lower-cased title, and Mid when none matches.
C18_FirstCueWins ==
    \A i \in 1..Len(nresults) :
        (~nresults[i].raised /\ ndetails[1].experience_level = <<>>) =>
            nresults[i].data[1].experience_level
                = FirstCueLevel(nresults[i].data[1].title)

\* C18 witness: "Senior Manager of Engineering", no level supplied, was
\* normalized to Senior
C18_Witness ==
    /\ Len(nresults) >= 1
    /\ ~nresults[1].raised
    /\ ndetails[1].experience_level = <<>>
    /\ nresults[1].data[1].title = <<"S","e","n","i","o","r"," ","M","a","n","a","g","e","r"," ","o","f"," ","E","n","g","i","n","e","e","r","i","n","g">>
    /\ HasCue(nresults[1].data[1].title, 1)
    /\ HasCue(nresults[1].data[1].title, 5)
    /\ nresults[1].data[1].experience_level = Senior

\* C19: the experience_level of every record normalize_job returns is one
\* of Junior, Mid, Senior, Manager, Executive, inferred or supplied.
C19_LevelInEnum ==
    \A i \in 1..Len(nresults) :
        ~nresults[i].raised =>
            nresults[i].data[1].experience_level
                \in {Junior, Mid, Senior, Manager, Executive}

\* C20: a numeric posted_at of magnitude 1e12 or more (1e12 itself
\* included) is read as milliseconds and normalizes to the instant of
\* n/1000 seconds; a smaller one is read as seconds.  In units of 1000
\* seconds 1e12 is 1000000000.
C20_MillisFrom1e12 ==
    \A i \in 1..Len(nresults) :
        LET d == ndetails[1].posted_at
        IN  (~nresults[i].raised /\ d.kind = "num") =>
              /\ (d.ks >= 1000000000 \/ (d.ks <= -1000000000 /\ d.s = 0)) =>
                     nresults[i].data[1].posted_at
                         = DateOut("instant", d.ks \div 1000, d.ks % 1000,
                                   d.s, <<>>)
              /\ (d.ks \in 1..999999999 /\ InDatetimeRange(d.ks, d.s)) =>
                     nresults[i].data[1].posted_at
                         = DateOut("instant", d.ks, d.s, 0, <<>>)

\* The store call that the step made, if it made one
CallMade == dcalls'.made = dcalls.made + 1

Called == dcalls.last # <<>>

LastCall == dcalls.last[1]

StoreKey(q) == <<WeWorkRemotely, q.sid>>

\* C21: across upsert_job calls on a key the row keeps the id and the
\* created_at of its insert, also when job_data carries another id; its
\* updated_at and last_checked_at never decrease, and every update sets
\* them to the time of the update.
C21_IdentityKept ==
    [][\A r \in jobs :
          /\ \E r2 \in jobs' : KeyOf(r2) = KeyOf(r)
          /\ \A r2 \in jobs' :
               KeyOf(r2) = KeyOf(r) =>
                 /\ r2.id = r.id
                 /\ r2.created_at = r.created_at
                 /\ r2.updated_at >= r.updated_at
                 /\ r2.last_checked_at >= r.last_checked_at
                 /\ (/\ CallMade
                     /\ dcalls'.last[1].op = "upsert_job"
                     /\ StoreKey(dcalls'.last[1].request) = KeyOf(r))
                    => /\ dcalls'.last[1].updated
                       /\ ~dcalls'.last[1].raised
                       /\ dcalls'.last[1].result = Some(r.id)
                       /\ r2.updated_at = now
                       /\ r2.last_checked_at = now]_vars

\* An update whose job_data carried another id, later than the insert
C21_Witness ==
    /\ Called
    /\ LastCall.op = "upsert_job"
    /\ LastCall.updated
    /\ LastCall.request.id = Some(GivenId)
    /\ \E r \in jobs :
         /\ KeyOf(r) = StoreKey(LastCall.request)
         /\ r.id # GivenId
         /\ r.created_at < r.updated_at
         /\ r.updated_at = LastCall.clock

\* job_data of the latest store call
LastJob == StoreJob[LastCall.request, LastCall.clock]

\* C22: after upsert_job updated an existing row, every mutable field of
\* the stored row equals the value carried by the given job, salary_min
\* and salary_max included when the job has them absent.
C22_UpdateOverwrites ==
    (Called /\ LastCall.op = "upsert_job" /\ LastCall.updated) =>
        \A r \in jobs :
            KeyOf(r) = StoreKey(LastCall.request) =>
                /\ r.title = LastJob.title
                /\ r.company_name = LastJob.company_name
                /\ r.description_text = LastJob.description_text
                /\ r.salary_min = LastJob.salary_min
                /\ r.salary_max = LastJob.salary_max
                /\ r.apply_url_original = LastJob.apply_url_original
                /\ r.apply_url_final = LastJob.apply_url_final
                /\ r.canonical_url = LastJob.canonical_url
                /\ r.status = LastJob.status
                /\ r.fingerprint_hash = LastJob.fingerprint_hash

\* C23: every stored row has salary_min <= salary_max when both are
\* present, after any inserts and updates of what extract_salary returned
\* and normalize_job passed through.
C23_SalaryOrdered ==
    \A r \in jobs :
        (r.salary_min # None /\ r.salary_max # None) =>
            r.salary_min[1] <= r.salary_max[1]

\* C24: check_duplicate reports a match exactly when the store holds a
\* row with status active and the job's fingerprint_hash, and the match
\* it reports is such a row; stale and removed rows never match, nor do
\* rows that only share the job's apply_url_final.
C24_ActiveFingerprintOnly ==
    (Called /\ LastCall.op = "check_duplicate") =>
        /\ ~LastCall.raised
        /\ LastCall.result # None
             <=> \E r \in jobs :
                    /\ r.status = "active"
                    /\ r.fingerprint_hash = LastJob.fingerprint_hash
        /\ LastCall.result # None =>
             \E r \in jobs :
                /\ LastCall.result[1] = [id |-> r.id, source |-> r.source]
                /\ r.status = "active"
                /\ r.fingerprint_hash = LastJob.fingerprint_hash

\* No match, with a stale row of the job's fingerprint and an active row
\* of another fingerprint and the job's apply_url_final in the store
C24_Witness ==
    /\ Called
    /\ LastCall.op = "check_duplicate"
    /\ LastCall.result = None
    /\ \E r \in jobs :
         /\ r.status \in {"stale", "removed"}
         /\ r.fingerprint_hash = LastJob.fingerprint_hash
    /\ \E r \in jobs :
         /\ r.status = "active"
         /\ r.fingerprint_hash # LastJob.fingerprint_hash
         /\ r.apply_url_final = LastJob.apply_url_final
         /\ r.apply_url_final # <<>>

Keys(rows) == {KeyOf(r) : r \in rows}

ActiveKeys(rows) == {KeyOf(r) : r \in {x \in rows : x.status = "active"}}

\* C25: no step deletes a job: the set of (source, source_job_id) keys in
\* the jobs table only grows, and a key that leaves the active set is still
\* in the table, with another status.
C25_NeverDeleted ==
    [][/\ Keys(jobs) \subseteq Keys(jobs')
       /\ \A k \in ActiveKeys(jobs) \ ActiveKeys(jobs') :
            \E r \in jobs' : KeyOf(r) = k /\ r.status # "active"]_vars

\* A job that was active has left the active set and is still stored,
\* beside another job
C25_Witness ==
    /\ Called
    /\ LastCall.op = "upsert_job"
    /\ LastCall.updated
    /\ LastCall.request.status # "active"
    /\ \E r \in LastCall.before : r.status = "active"
    /\ \E r \in jobs :
         KeyOf(r) = StoreKey(LastCall.request) /\ r.status # "active"
    /\ Cardinality(Keys(jobs)) = 2

\* C26: after any inserts and updates, the fingerprint_hash of every
\* stored row is _generate_fingerprint of the row's stored title,
\* company_name and description_text.
C26_FingerprintOfContent ==
    \A r \in jobs :
        r.fingerprint_hash
            = generate_fingerprint(r.title, r.company_name,
                                   r.description_text)

\* A row whose title an update has changed
C26_Witness ==
    /\ Called
    /\ LastCall.op = "upsert_job"
    /\ LastCall.updated
    /\ \E r \in LastCall.before : r.title # LastCall.request.title
    /\ \E r \in jobs :
         /\ KeyOf(r) = StoreKey(LastCall.request)
         /\ r.title = LastCall.request.title

\* The step in which worker w leaves upsert_job (db.py:120-161) and the
\* tally after it (main.py:104-107)
UpsertReturns(w) == pc[w] = "upsert_write" /\ pc'[w] # "upsert_write"

\* C27: for every listing that reaches upsert_job, jobs_new is incremented
\* exactly when upsert_job inserted a row and jobs_updated exactly when it
\* ran its UPDATE on the row of the key, never both; over a run the rows
\* added to the table are as many as jobs_new counts.
C27_TallyMatchesWrite ==
    [][/\ \A w \in Workers :
            UpsertReturns(w) =>
              LET inserted == Keys(jobs') # Keys(jobs)
                  updated == /\ storeUp
                             /\ found[w] # None
                             /\ \E r \in jobs' :
                                  /\ r.id = found[w][1]
                                  /\ KeyOf(r) = KeyOf(job[w][1])
                                  /\ r.title = job[w][1].title
                                  /\ r.updated_at = now
              IN  /\ stats'[w].jobs_new
                       = stats[w].jobs_new + (IF inserted THEN 1 ELSE 0)
                  /\ stats'[w].jobs_updated
                       = stats[w].jobs_updated + (IF updated THEN 1 ELSE 0)
                  /\ ~(inserted /\ updated)
       /\ Cardinality(jobs') - Cardinality(jobs)
            = (stats'[1].jobs_new + stats'[2].jobs_new)
              - (stats[1].jobs_new + stats[2].jobs_new)]_vars

\* A run that has inserted one job and then updated it
C27_Witness ==
    /\ last[1] = [tally |-> "jobs_updated", stage |-> "upsert_write"]
    /\ stats[1].jobs_new = 1
    /\ stats[1].jobs_updated = 1
    /\ Cardinality(jobs) = 1
    /\ \E r \in jobs : r.created_at < r.updated_at

\* run_source has returned its stats (main.py:64 or 131)
Returned(w) == pc[w] \in {"done", "failed"}

\* C28: when run_source returns, its crawl_log entry has been finished
\* exactly once and is no longer running; its status is error exactly when
\* an error message was recorded, which is when no listings were found or
\* a fatal exception was handled, and completed otherwise, whatever the
\* number of per-listing errors; a run that found no listings wrote no job.
C28_LogFinished ==
    \A w \in Workers :
        Returned(w) =>
            /\ crawl_log[w] # None
            /\ crawl_log[w][1].finishes = 1
            /\ crawl_log[w][1].status \in {"completed", "error"}
            /\ crawl_log[w][1].status = "error"
                 <=> crawl_log[w][1].error_message # None
            /\ crawl_log[w][1].status = "error"
                 <=> (pc[w] = "failed" \/ stats[w].listings_found = 0)
            /\ (pc[w] = "done" /\ stats[w].listings_found = 0) => jobs = {}

\* The waits a call has made after n request errors
BackoffWaits(n) ==
    [i \in 1..Min(n, MAX_RETRIES - 1) |-> Power(RETRY_BACKOFF, i - 1)]

\* C29: fetch makes at most MAX_RETRIES request attempts and is over after
\* the last; it returns the response of the first successful attempt and
\* makes none after it; it returns None exactly when MAX_RETRIES attempts
\* all failed with a request error; after the failed attempt number
\* attempt (from 0) it waits RETRY_BACKOFF**attempt, except after the last.
C29_BoundedRetries ==
    fetch # None =>
        LET f == fetch[1]
            n == Len(f.outcomes)
        IN  /\ n <= MAX_RETRIES
            /\ f.pc = "attempt" => n < MAX_RETRIES
            /\ \A i \in 1..(n - 1) : f.outcomes[i] \in RequestErrors
            /\ (f.pc = "returned" /\ f.result # None) =>
                   /\ f.outcomes[n] \in Successes
                   /\ f.result = Some(f.outcomes[n])
            /\ f.pc = "returned" =>
                   (f.result = None
                      <=> /\ n = MAX_RETRIES
                          /\ \A i \in 1..n : f.outcomes[i] \in RequestErrors)
            /\ f.sleeps
                 = BackoffWaits(Cardinality({i \in 1..n :
                                               f.outcomes[i] \in RequestErrors}))

\* None after three failed attempts and the waits of 1 and 2 seconds
C29_Witness ==
    /\ fetch # None
    /\ fetch[1].pc = "returned"
    /\ fetch[1].result = None
    /\ Len(fetch[1].outcomes) = MAX_RETRIES
    /\ fetch[1].sleeps = <<1, 2>>

\* The description component: the first 500 characters, white space
\* collapsed, lower-cased and stripped
CleanedWindow(d) == Strip(Lower(CollapseWs(Prefix(d, DescWindow))))

\* C30: two jobs get the same fingerprint_hash only if their lower-cased,
\* stripped titles, their lower-cased, stripped companies and their
\* cleaned 500-character description prefixes are each equal, also when a
\* title or company holds the "|" separator and when the description is
\* empty.
C30_ComponentsDetermined ==
    (Len(fres) = 2 /\ fres[1] = fres[2]) =>
        /\ Strip(Lower(fargs[1].title)) = Strip(Lower(fargs[2].title))
        /\ Strip(Lower(fargs[1].company)) = Strip(Lower(fargs[2].company))
        /\ CleanedWindow(fargs[1].description)
             = CleanedWindow(fargs[2].description)

====
